---- MODULE Spec2Model ----
(***************************************************************************)
(* zockimate: the snapshot-and-rollback protected update engine.           *)
(*                                                                         *)
(* The model covers the ContainerManager (UpdateContainer,                 *)
(* RollbackContainer, CreateSnapshot, RemoveContainer), the stores it      *)
(* coordinates (the container engine, the snapshot table, the ZFS dataset) *)
(* and the manager's sync.RWMutex.  Goroutines of one process call the     *)
(* manager concurrently; every goroutine carries a call stack because      *)
(* UpdateContainer and RollbackContainer call RollbackContainer again on   *)
(* failure.                                                                *)
(***************************************************************************)
EXTENDS Integers, Sequences, FiniteSets, TLC

(***************************************************************************)
(* Bounds of the model.                                                    *)
(***************************************************************************)
\* top-level manager calls one goroutine may issue
MaxOps == 2
\* names of a batch
MaxBatch == 2
\* seconds a WaitForContainer call is followed for
MaxWait == 3
\* frames of one goroutine's call stack (nested recovery rollbacks)
MaxDepth == 3
\* top-level calls of the first of two concurrent goroutines
MaxConcOps == 2
\* injected failures of the engine, the registry and the dataset tool
MaxFaults == 1
\* injected failures while two goroutines run
MaxConcFaults == 0
\* cfg.Retention, the number of snapshot rows a retention sweep keeps
Retention == 2
\* rows per container of the tables CleanupSnapshots is applied to
MaxRows == 3
\* cron ticks that fire while the scheduler runs
MaxTicks == 2
\* seconds of a calendar day
DayLength == 2

Procs == {"p1", "p2"}
Names == {"web", "db"}
\* the container the modelled calls are issued for
Targets == {"web"}

\* image 1 is the image the container starts on, image 2 what the registry serves
Images == {1, 2}
RegistryImage == 2

VARIABLES
    engine,     \* container engine: name -> container
    tagTarget,  \* local image store: the image the user's tag resolves to
    zfs,        \* name -> [data, snaps]: dataset content and its snapshots, oldest first
    rows,       \* table container_snapshots
    nextId,     \* AUTOINCREMENT counter of the table
    now,        \* wall clock, in seconds
    locked,     \* cm.lock is write-locked
    holder,     \* the frame whose Lock() call locked it (history, sync.RWMutex has no owner)
    stack,      \* goroutine -> call stack of frames
    budget,     \* goroutine -> top-level calls left
    ret,        \* goroutine -> result of its last top-level call
    faults,     \* failures left to inject
    crashed,    \* the runtime's fatal error ended the process
    call,       \* a call of a pure helper: its arguments and its result
    sched       \* the Scheduler: cron, signal goroutine, stopChan, wg, tasks

vars == <<engine, tagTarget, zfs, rows, nextId, now, locked, holder, stack,
          budget, ret, faults, crashed, call, sched>>

(***************************************************************************)
(* Image references (internal/types/image.go).  A reference string is      *)
(* [kind, img]: the user's tag, a repo digest, a local id, or "".          *)
(***************************************************************************)
NoRef == [kind |-> "none", img |-> 0]
TagRef == [kind |-> "tag", img |-> 0]
DigestRef(i) == [kind |-> "digest", img |-> i]
IdRef(i) == [kind |-> "id", img |-> i]

\* ImageReference: ID, RepoDigest (0 is ""), Tag (0 is "", 1 the user's tag), Original
BestReferenceMutantTagFirst(ir) ==
    IF ir.Tag # 0 THEN TagRef
    ELSE IF ir.RepoDigest # 0 THEN DigestRef(ir.RepoDigest)
    ELSE IdRef(ir.ID)
BestReference(ir) ==
    IF ir.RepoDigest # 0 THEN DigestRef(ir.RepoDigest)
    ELSE IF ir.Tag # 0 THEN TagRef
    ELSE IdRef(ir.ID)

IsExactReference(ir) == ir.RepoDigest # 0 \/ ir.ID # 0

\* docker.Client.GetImageInfo: inspect of a local image by id
GetImageInfo(id, tt) ==
    [ID |-> id, RepoDigest |-> id, Tag |-> IF tt = id THEN 1 ELSE 0, Original |-> NoRef]

\* the image a reference resolves to in the local store (0: none)
Resolve(ref, tt) ==
    IF ref.kind = "tag" THEN tt
    ELSE IF ref.kind \in {"digest", "id"} THEN ref.img
    ELSE 0

\* docker.Client.RemoveImage (zfs.go 293-306), not forced: the image is deleted
\* and the tag that named it names nothing; an image that is gone is no error
RemoveImage(id, tt, fails) == IF ~fails /\ tt = id THEN 0 ELSE tt

\* docker.Client.PullImage: the tag moves to what the registry serves; a digest
\* is fetched as is; a bare local id is no registry reference
PullOk(ref) == ref.kind \in {"tag", "digest"}
PullTag(ref, tt) == IF ref.kind = "tag" THEN RegistryImage ELSE tt

(***************************************************************************)
(* Containers.                                                             *)
(***************************************************************************)
NoConfig == [image |-> NoRef, enabled |-> FALSE, dataset |-> FALSE, orig |-> NoRef, snapid |-> 0]
\* the call that created a container (history): "update" or "rollback" with the
\* snapshot it applied; "none" for a container the user created
NoMaker == [op |-> "none", sid |-> 0]
NoContainer ==
    [exists |-> FALSE, running |-> FALSE, health |-> "none", image |-> 0, cfg |-> NoConfig,
     made |-> NoMaker]

\* how a started container of an image behaves: "good" runs, "crash" exits on
\* start, "sick" runs but its health check never turns healthy
Behaviours(img) == IF img = 1 THEN {"good"} ELSE {"good", "crash", "sick"}

Started(cfg, img, b) ==
    [exists |-> TRUE, running |-> (b # "crash"),
     health |-> IF b = "sick" THEN "unhealthy" ELSE "none",
     image |-> img, cfg |-> cfg, made |-> NoMaker]

(***************************************************************************)
(* ZFS (internal/storage/zfs/zfs.go).  A handle is dataset@snapshot_<time>.*)
(***************************************************************************)
NoHandle == [ds |-> "", t |-> 0]
Handle(name, t) == [ds |-> name, t |-> t]

HandleExists(z, h) == h.ds \in Names /\ \E i \in 1..Len(z[h.ds].snaps) : z[h.ds].snaps[i].t = h.t

\* zfs snapshot: fails when the name is taken
ZfsCreateOk(z, name, t) == ~HandleExists(z, Handle(name, t))
ZfsCreate(z, name, t) ==
    [z EXCEPT ![name].snaps = Append(@, [t |-> t, data |-> z[name].data])]

KeepSnaps(s, t) == SelectSeq(s, LAMBDA x : x.t # t)

\* zfs destroy
ZfsDestroyMutantKept(z, h) == z
ZfsDestroy(z, h) ==
    IF HandleExists(z, h) THEN [z EXCEPT ![h.ds].snaps = KeepSnaps(@, h.t)] ELSE z

SnapIndex(z, h) == CHOOSE i \in 1..Len(z[h.ds].snaps) : z[h.ds].snaps[i].t = h.t

\* zfs rollback -r: the dataset returns to the snapshot and every snapshot
\* taken after it is destroyed
ZfsRollback(z, h) ==
    LET i == SnapIndex(z, h) IN
    [z EXCEPT ![h.ds] = [data |-> z[h.ds].snaps[i].data,
                         snaps |-> SubSeq(z[h.ds].snaps, 1, i)]]

(***************************************************************************)
(* The snapshot table (internal/storage/database/database.go).             *)
(***************************************************************************)
NoImageRef == [ID |-> 0, RepoDigest |-> 0, Tag |-> 0, Original |-> NoRef]
NoRow == [id |-> 0, name |-> "", ref |-> NoImageRef, cfg |-> NoConfig,
          zfs |-> NoHandle, created_at |-> 0]

\* WHERE container_name = ?
RowsOfMutantAnyName(rs, name) == rs
RowsOf(rs, name) == {r \in rs : r.name = name}

\* rows of name newer than r
Newer(rs, r) == {q \in RowsOf(rs, r.name) : q.created_at > r.created_at}

\* database.go 127: WHERE container_name = ? AND id = ?
MatchesMutantIdOnly(r, name, id) == r.id = id
Matches(r, name, id) == r.name = name /\ r.id = id

\* GetSnapshot: the row of that id and name, or the most recent row of the name
HasSnapshot(rs, name, id) ==
    IF id > 0 THEN \E r \in rs : Matches(r, name, id)
    ELSE RowsOf(rs, name) # {}
GetSnapshot(rs, name, id) ==
    IF id > 0 THEN CHOOSE r \in rs : Matches(r, name, id)
    ELSE CHOOSE r \in RowsOf(rs, name) : Newer(rs, r) = {}

\* SELECT ... WHERE container_name = ? ORDER BY created_at DESC LIMIT -1 OFFSET retain
CleanupVictimsMutantOffByOne(rs, name, retain) ==
    {r \in RowsOf(rs, name) : Cardinality(Newer(rs, r)) >= retain + 1}
CleanupVictims(rs, name, retain) ==
    {r \in RowsOf(rs, name) : Cardinality(Newer(rs, r)) >= retain}

RECURSIVE DestroyAll(_, _)
DestroyAll(z, hs) ==
    IF hs = {} THEN z
    ELSE LET h == CHOOSE x \in hs : TRUE IN DestroyAll(ZfsDestroy(z, h), hs \ {h})

HandlesOf(rs) == {r.zfs : r \in {q \in rs : q.zfs # NoHandle}}

\* CleanupSnapshots: every victim's dataset snapshot is destroyed, then its row deleted
CleanupRows(rs, name, retain) == rs \ CleanupVictims(rs, name, retain)
CleanupZfs(z, rs, name, retain) == DestroyAll(z, HandlesOf(CleanupVictims(rs, name, retain)))

\* the calendar day of a second: created_at is stored as an RFC 3339 text and
\* compared, as text, with a date "2006-01-02", so a row is before a date
\* exactly when its day is an earlier one
Day(t) == t \div DayLength

\* database.go 338-354: the rows the DELETE statement of RemoveEntries names
\* at second t; without all, before and older_than it names every row of name
Selected(rs, name, opts, t) ==
    {r \in RowsOf(rs, name) :
        \/ opts.all
        \/ /\ (opts.before # 0 => Day(r.created_at) < Day(opts.before))
           /\ (opts.olderThan > 0 => Day(r.created_at) < Day(t - opts.olderThan))}

\* database.go 338-394: with opts.Zfs the handles are read with the text
\* "SELECT zfs_snapshot FROM container_snapshots WHERE " followed by the whole
\* DELETE statement, which the database rejects: the call returns an error
\* before anything is destroyed or deleted
RemoveEntries(rs, z, name, opts, t) ==
    IF opts.zfs
    THEN [ok |-> FALSE, count |-> 0, rows |-> rs, zfs |-> z]
    ELSE [ok |-> TRUE, count |-> Cardinality(Selected(rs, name, opts, t)),
          rows |-> rs \ Selected(rs, name, opts, t), zfs |-> z]

(***************************************************************************)
(* ContainerManager.CreateSnapshot (internal/manager/check.go, 260-348),   *)
(* run under cm.lock.  t is the second at which it runs.  The outcome is   *)
(* [ok, id, rows, zfs]: the new row's id and the stores afterwards.        *)
(***************************************************************************)
SnapshotFails(z) == [ok |-> FALSE, id |-> 0, rows |-> rows, zfs |-> z]

SweepMutantNever(noCleanup) == FALSE
\* check.go 339: the retention sweep runs unless opts.NoCleanup
Sweep(noCleanup) == ~noCleanup

\* fault names the call inside CreateSnapshot that is made to fail: none,
\* the inspect (273), GetImageInfo (284), zfs snapshot (300),
\* GetContainerConfigs (308) or the insert of SaveSnapshot (330)
CreateSnapshotWith(name, force, noCleanup, t, fault) ==
    LET c == engine[name]
        ir == [GetImageInfo(c.image, tagTarget) EXCEPT
                 !.Original = IF c.cfg.orig # NoRef THEN c.cfg.orig ELSE c.cfg.image]
        h == IF c.cfg.dataset THEN Handle(name, t) ELSE NoHandle
        z1 == IF c.cfg.dataset THEN ZfsCreate(zfs, name, t) ELSE zfs
        row == [id |-> nextId, name |-> name, ref |-> ir, cfg |-> c.cfg,
                zfs |-> h, created_at |-> t]
        rs1 == rows \cup {row}
    IN  IF ~c.exists \/ fault = "inspect" THEN SnapshotFails(zfs)
        ELSE IF ~force /\ ~c.running THEN SnapshotFails(zfs)
        ELSE IF fault = "image" THEN SnapshotFails(zfs)
        ELSE IF c.cfg.dataset /\ (fault = "zfs" \/ ~ZfsCreateOk(zfs, name, t))
             THEN SnapshotFails(zfs)
        \* 308-313: the dataset snapshot just taken is deleted again
        ELSE IF fault = "configs" THEN SnapshotFails(ZfsDestroy(z1, h))
        \* SaveSnapshot: UNIQUE(container_name, created_at); the dataset
        \* snapshot just taken is deleted again
        ELSE IF fault = "insert" \/ \E r \in RowsOf(rows, name) : r.created_at = t
             THEN SnapshotFails(ZfsDestroy(z1, h))
        ELSE IF Sweep(noCleanup)
             THEN [ok |-> TRUE, id |-> nextId,
                   rows |-> CleanupRows(rs1, name, Retention),
                   zfs |-> CleanupZfs(z1, rs1, name, Retention)]
        ELSE [ok |-> TRUE, id |-> nextId, rows |-> rs1, zfs |-> z1]

CreateSnapshot(name, force, noCleanup, t) ==
    CreateSnapshotWith(name, force, noCleanup, t, "none")

(***************************************************************************)
(* docker.Client.RecreateContainer and WaitForContainer (zfs.go 167-228).  *)
(* stage names the engine call that fails ("none": all succeed), b how the *)
(* started container behaves.                                              *)
(***************************************************************************)
RecreateContainer(c, cfg, tt, stage, b) ==
    LET img == Resolve(cfg.image, tt) IN
    IF c.exists /\ stage = "stop" THEN [ok |-> FALSE, created |-> FALSE, ctn |-> c]
    ELSE IF c.exists /\ stage = "remove"
         THEN [ok |-> FALSE, created |-> FALSE, ctn |-> [c EXCEPT !.running = FALSE]]
    ELSE IF stage = "create" \/ img = 0
         THEN [ok |-> FALSE, created |-> FALSE, ctn |-> NoContainer]
    ELSE IF stage = "start"
         THEN [ok |-> FALSE, created |-> TRUE,
               ctn |-> [Started(cfg, img, "crash") EXCEPT !.health = "none"]]
    ELSE [ok |-> TRUE, created |-> TRUE, ctn |-> Started(cfg, img, b)]

\* the container a recreate leaves, marked with the call that created it
CreatedBy(r, op, sid) ==
    IF r.created THEN [r.ctn EXCEPT !.made = [op |-> op, sid |-> sid]] ELSE r.ctn

\* the stages that can be made to fail with the faults left
Stages(c) ==
    {"none"} \cup (IF faults > 0
                   THEN {"create", "start"} \cup (IF c.exists THEN {"stop", "remove"} ELSE {})
                   ELSE {})

\* the started container writes the dataset in its image's format
DataAfter(z, name, r) ==
    IF r.ok /\ r.ctn.cfg.dataset THEN [z EXCEPT ![name].data = r.ctn.image] ELSE z

\* the ready condition of one poll
ReadyMutantRunning(c) == c.exists /\ c.running
Ready(c) ==
    c.exists /\ (IF c.health # "none" THEN c.health = "healthy" ELSE c.running)

(***************************************************************************)
(* Frames of a goroutine's call stack, and results.                        *)
(***************************************************************************)
NoOpts == [sid |-> 0, image |-> FALSE, data |-> FALSE, config |-> FALSE,
           force |-> FALSE, noCleanup |-> FALSE, dryRun |-> FALSE,
           all |-> FALSE, before |-> 0, olderThan |-> 0, zfs |-> FALSE,
           dbOnly |-> FALSE, cleanup |-> FALSE]
NoRes == [op |-> "none", name |-> "", opts |-> NoOpts, ok |-> FALSE, err |-> "", rb |-> FALSE, rec |-> FALSE,
          needs |-> FALSE, sid |-> 0, safety |-> 0, done |-> FALSE, count |-> 0,
          newName |-> "", renamed |-> FALSE, removed |-> 0]

Frame(op, pc, name, opts) ==
    [op |-> op, pc |-> pc, name |-> name, opts |-> opts, ctn |-> NoContainer,
     snap |-> NoRow, safety |-> 0, err |-> "", rb |-> FALSE, rec |-> FALSE,
     needs |-> FALSE, sub |-> NoRes]

\* the result a frame returns
Res(f, ok, err) ==
    [op |-> f.op, name |-> f.name, opts |-> f.opts, ok |-> ok, err |-> err, rb |-> f.rb, rec |-> f.rec,
     needs |-> f.needs, sid |-> f.snap.id, safety |-> f.safety, done |-> TRUE, count |-> 0,
     newName |-> "", renamed |-> FALSE, removed |-> 0]

Depth(p) == Len(stack[p])
Top(p) == stack[p][Depth(p)]
Below(p) == SubSeq(stack[p], 1, Depth(p) - 1)

NoHolder == [p |-> "", d |-> 0]

\* the frame f, on top of the frames below, goes on
Continue(p, below, f) ==
    /\ stack' = [stack EXCEPT ![p] = Append(below, f)]
    /\ ret' = ret

\* the frame on top of the frames below returns res to its caller
Return(p, below, res) ==
    IF below = <<>>
    THEN /\ stack' = [stack EXCEPT ![p] = <<>>]
         /\ ret' = [ret EXCEPT ![p] = res]
    ELSE /\ stack' = [stack EXCEPT ![p] =
                        Append(SubSeq(below, 1, Len(below) - 1),
                               [below[Len(below)] EXCEPT !.sub = res])]
         /\ ret' = ret

\* cm.lock.Unlock(): unlocking an unlocked RWMutex is a fatal runtime error
UnlockOk == locked
Unlock ==
    /\ locked' = FALSE
    /\ holder' = NoHolder
Fatal ==
    /\ crashed' = TRUE
    /\ UNCHANGED <<locked, holder, stack, ret>>

\* the options of the rollback a failed update or rollback falls back on
Forced(id) ==
    [NoOpts EXCEPT !.sid = id, !.image = TRUE, !.data = TRUE, !.config = TRUE,
                   !.force = TRUE]

\* the frame f calls RollbackContainer(name, Forced(f.safety)); past MaxDepth
\* frames the model follows the recursion no further
Compensate(p, below, f) ==
    /\ ret' = ret
    /\ IF Len(below) + 1 < MaxDepth
       THEN stack' = [stack EXCEPT ![p] =
                        Append(Append(below, f),
                               Frame("rollback", "inspect", f.name, Forced(f.safety)))]
       ELSE stack' = [stack EXCEPT ![p] = Append(below, [f EXCEPT !.pc = "cut"])]

\* update.go 138 and rollback 228: the frame d of p, which locked cm.lock,
\* releases it before the nested call
ReleaseForNestedMutantKeep(p, d) ==
    /\ locked' = TRUE
    /\ holder' = [p |-> p, d |-> d]
ReleaseForNested(p, d) == Unlock

\* the frame f (on top of below) releases the lock and calls the nested rollback
CallNested(p, below, f) ==
    /\ ReleaseForNested(p, Len(below) + 1)
    /\ Compensate(p, below, f)
    /\ UNCHANGED crashed

\* the frame returns res and its deferred cm.lock.Unlock() runs
ReturnDeferred(p, below, res) ==
    IF UnlockOk
    THEN /\ Unlock
         /\ Return(p, below, res)
         /\ UNCHANGED crashed
    ELSE Fatal

\* whether the next registry or dataset call is made to fail
Faulty == IF faults > 0 THEN {FALSE, TRUE} ELSE {FALSE}
Charge(b) == faults' = IF b THEN faults - 1 ELSE faults

(***************************************************************************)
(* Initial state: the container runs image 1 under the user's tag; the     *)
(* table holds a row of an earlier release for it, stored without image id *)
(* or digest and without dataset snapshot, and a row of another container. *)
(***************************************************************************)
UserConfig == [image |-> TagRef, enabled |-> TRUE, dataset |-> TRUE, orig |-> NoRef, snapid |-> 0]

LegacyRow ==
    [id |-> 1, name |-> "web",
     ref |-> [ID |-> 0, RepoDigest |-> 0, Tag |-> 1, Original |-> TagRef],
     cfg |-> UserConfig, zfs |-> NoHandle, created_at |-> 0]
ForeignRow ==
    [id |-> 2, name |-> "db",
     ref |-> [ID |-> 1, RepoDigest |-> 1, Tag |-> 1, Original |-> TagRef],
     cfg |-> UserConfig, zfs |-> Handle("db", 0), created_at |-> 0]

\* the label zockimate.timeout: whether it is set, and its text as an optional
\* minus sign and a sequence of number-unit terms ("24h1s" is <<24 h, 1 s>>)
NoLabel == [present |-> FALSE, neg |-> FALSE, terms |-> <<>>]

\* no helper has been called
NoCall ==
    [fn |-> "none", cur |-> NoImageRef, lat |-> NoImageRef, samePlatform |-> TRUE,
     label |-> NoLabel, def |-> 0,
     done |-> FALSE, needs |-> FALSE, err |-> "", timeout |-> 0,
     elapsed |-> 0, tick |-> FALSE, polls |-> 0, observed |-> NoContainer]

\* the batch a scheduled task or the update command runs: the list of names,
\* the index of the next name, whether a call for a name is under way, the
\* names a call was issued for, the update results collected, the counters
NoBatch ==
    [checkOnly |-> FALSE, force |-> FALSE, cleanup |-> FALSE, containers |-> <<>>, i |-> 0, busy |-> FALSE,
     processed |-> <<>>, results |-> <<>>, updated |-> 0, skipped |-> 0, failed |-> 0,
     needsUpdate |-> 0, upToDate |-> 0, done |-> FALSE, exit |-> 0]

\* NewScheduler (scheduler.go 45-63): a cron that was not started, an open
\* stopChan, a zero WaitGroup; no signal goroutine and no Stop call yet
Tasks == 1..MaxTicks
Stoppers == {"signal", "api"}
NewScheduler ==
    [cron |-> "new", task |-> [i \in Tasks |-> "none"], signalled |-> "none",
     stopChan |-> "open", wg |-> 0, handler |-> "none",
     stop |-> [c \in Stoppers |-> "none"], panicked |-> FALSE, batch |-> NoBatch]

InitStores ==
    /\ call = NoCall
    /\ sched = NewScheduler
    /\ engine = [n \in Names |-> Started(UserConfig, 1, "good")]
    /\ tagTarget = 1
    /\ zfs = [n \in Names |->
                [data |-> 1,
                 snaps |-> IF n = "db" THEN <<[t |-> 0, data |-> 1]>> ELSE <<>>]]
    /\ rows = {LegacyRow, ForeignRow}
    /\ nextId = 3
    /\ now = 1
    /\ locked = FALSE
    /\ holder = NoHolder
    /\ stack = [p \in Procs |-> <<>>]
    /\ ret = [p \in Procs |-> NoRes]
    /\ crashed = FALSE

\* one goroutine issues the calls one after the other
Init ==
    /\ InitStores
    /\ faults = MaxFaults
    /\ budget = [p \in Procs |-> IF p = "p1" THEN MaxOps ELSE 0]

\* two goroutines issue calls concurrently
InitConc ==
    /\ InitStores
    /\ faults = MaxConcFaults
    /\ budget = [p \in Procs |-> IF p = "p1" THEN MaxConcOps ELSE 1]

\* utils.IsContainerEnabled: the label zockimate.enable is "true"
\* (cm.config.NoFilter is not set)
IsContainerEnabledMutantAlways(cfg) == TRUE
IsContainerEnabled(cfg) == cfg.enabled

\* a goroutine may start a top-level call
Idle(p) == ~crashed /\ stack[p] = <<>> /\ budget[p] > 0
\* a goroutine is in the frame of op at pc
At(p, op, pc) == ~crashed /\ stack[p] # <<>> /\ Top(p).op = op /\ Top(p).pc = pc

Spend(p) == budget' = [budget EXCEPT ![p] = @ - 1]

(***************************************************************************)
(* save: CreateSnapshot called from the command line (Dockerfile 689).     *)
(***************************************************************************)
Save(p) ==
    /\ Idle(p)
    /\ ~locked
    /\ \E name \in Targets, noCleanup \in BOOLEAN, t \in {now + 1} :
         LET out == CreateSnapshot(name, FALSE, noCleanup, t)
             f == [Frame("save", "run", name, [NoOpts EXCEPT !.noCleanup = noCleanup])
                     EXCEPT !.safety = out.id]
         IN  /\ now' = t
             /\ rows' = out.rows
             /\ zfs' = out.zfs
             /\ nextId' = IF out.ok THEN nextId + 1 ELSE nextId
             /\ ret' = [ret EXCEPT ![p] = Res(f, out.ok, IF out.ok THEN "" ELSE "save")]
    /\ Spend(p)
    /\ UNCHANGED <<engine, tagTarget, locked, holder, stack, faults, crashed>>
    /\ UNCHANGED <<call, sched>>

(***************************************************************************)
(* remove: RemoveContainer (unnamed/part_005 13-63) with --force --all,    *)
(* with or without --zfs.                                                  *)
(***************************************************************************)
Remove(p) ==
    /\ Idle(p)
    /\ ~locked
    /\ \E name \in Targets, withZfs \in BOOLEAN :
         LET opts == [NoOpts EXCEPT !.force = TRUE, !.all = TRUE, !.zfs = withZfs]
             out == RemoveEntries(rows, zfs, name, opts, now)
         IN  /\ zfs' = out.zfs
             /\ rows' = out.rows
             /\ ret' = [ret EXCEPT ![p] =
                          [Res(Frame("remove", "run", name, opts), out.ok,
                               IF out.ok THEN "" ELSE "remove")
                             EXCEPT !.count = out.count]]
    /\ Spend(p)
    /\ UNCHANGED <<engine, tagTarget, nextId, now, locked, holder, stack, faults, crashed>>
    /\ UNCHANGED <<call, sched>>

(***************************************************************************)
(* UpdateContainer (internal/manager/update.go 19-165).                    *)
(***************************************************************************)
\* 25: opts.DryRun
DryRunMutantIgnored(opts) == FALSE
DryRun(opts) == opts.dryRun

\* 25-51: the dry run, then inspect and the management and running gates,
\* outside the lock
UpdateBegin(p, name, opts) ==
    /\ ~crashed
    /\ stack[p] = <<>>
    /\ LET c == engine[name]
           f == [Frame("update", "check", name, opts) EXCEPT !.ctn = c]
       IN  IF DryRun(opts)
           THEN Return(p, <<>>, Res(Frame("update", "check", name, opts), FALSE, ""))
           ELSE IF ~c.exists THEN Return(p, <<>>, Res(f, FALSE, "noctr"))
           ELSE IF ~IsContainerEnabled(c.cfg) THEN Return(p, <<>>, Res(f, FALSE, "notenabled"))
           ELSE IF ~c.running THEN Return(p, <<>>, Res(f, FALSE, "notrunning"))
           ELSE Continue(p, <<>>, f)
    /\ UNCHANGED <<engine, tagTarget, zfs, rows, nextId, now, locked, holder, faults, crashed>>
    /\ UNCHANGED call

UpdateStart(p, name, force) == UpdateBegin(p, name, [NoOpts EXCEPT !.force = force])

\* UpdateContainer called from the command line for one container
UpdateInspect(p) ==
    /\ Idle(p)
    /\ \E name \in Targets, force \in BOOLEAN : UpdateStart(p, name, force)
    /\ Spend(p)
    /\ UNCHANGED sched

\* check.go 78-95
NeedsUpdateMutantIdOnly(cur, lat) == cur.ID # lat.ID
NeedsUpdate(cur, lat) ==
    IF IsExactReference(cur) /\ IsExactReference(lat)
    THEN IF cur.RepoDigest # 0 /\ lat.RepoDigest # 0
         THEN cur.RepoDigest # lat.RepoDigest
         ELSE cur.ID # lat.ID
    ELSE cur.ID # lat.ID

\* check.go 98: the pulled image is cleaned up
CleanupRequestedMutantAlways(cleanup, needs) == cleanup
CleanupRequested(cleanup, needs) == cleanup /\ needs

\* check.go 50-54: the reference an update is pulled from
UpdateRef(c) == IF c.cfg.orig # NoRef THEN c.cfg.orig ELSE c.cfg.image

\* 53-67: CheckContainer (check.go 15-125, under cm.lock) called with
\* WithCheckCleanup(false)
UpdateCheck(p) ==
    /\ At(p, "update", "check")
    /\ ~locked
    /\ LET f == Top(p)
           c == engine[f.name]
           ref == UpdateRef(c)
       IN  \E bad \in Faulty :
             IF ~c.exists \/ ~IsContainerEnabled(c.cfg) \/ ~c.running
             THEN /\ Return(p, Below(p), Res(f, FALSE, "check"))
                  /\ UNCHANGED <<tagTarget, faults>>
             ELSE IF bad \/ ~PullOk(ref)
             THEN /\ Return(p, Below(p), Res(f, FALSE, "check"))
                  /\ Charge(bad)
                  /\ UNCHANGED tagTarget
             ELSE LET tt == PullTag(ref, tagTarget)
                      cur == GetImageInfo(c.image, tagTarget)
                      lat == GetImageInfo(Resolve(ref, tt), tt)
                      needs == NeedsUpdate(cur, lat)
                  IN  /\ tagTarget' = IF CleanupRequested(FALSE, needs)
                                      THEN RemoveImage(lat.ID, tt, FALSE) ELSE tt
                      /\ UNCHANGED faults
                      /\ IF ~needs /\ ~f.opts.force
                         THEN Return(p, Below(p), Res(f, FALSE, ""))
                         ELSE Continue(p, Below(p),
                                       [f EXCEPT !.pc = "presnap", !.needs = needs])
    /\ UNCHANGED <<engine, zfs, rows, nextId, now, locked, holder, budget, crashed>>
    /\ UNCHANGED <<call, sched>>

\* CheckContainer (check.go 15-125): the gates, the pull and the comparison,
\* under cm.lock
CheckContainer(p, name, cleanup) ==
    /\ ~crashed
    /\ stack[p] = <<>>
    /\ ~locked
    /\ \E bad \in Faulty :
         LET c == engine[name]
             f == [Frame("check", "run", name, [NoOpts EXCEPT !.cleanup = cleanup])
                     EXCEPT !.ctn = c]
             ref == UpdateRef(c)
             gate == IF ~c.exists THEN "noctr"
                     ELSE IF ~IsContainerEnabled(c.cfg) THEN "notenabled"
                     ELSE IF ~c.running THEN "notrunning"
                     ELSE ""
         IN  IF gate # ""
             THEN /\ ret' = [ret EXCEPT ![p] = Res(f, FALSE, gate)]
                  /\ UNCHANGED <<tagTarget, faults>>
             ELSE IF bad \/ ~PullOk(ref)
             THEN /\ ret' = [ret EXCEPT ![p] = Res(f, FALSE, "pull")]
                  /\ Charge(bad)
                  /\ UNCHANGED tagTarget
             ELSE LET tt == PullTag(ref, tagTarget)
                      cur == GetImageInfo(c.image, tagTarget)
                      lat == GetImageInfo(Resolve(ref, tt), tt)
                      needs == NeedsUpdate(cur, lat)
                      req == CleanupRequested(cleanup, needs)
                  IN  \E rm \in IF req THEN Faulty ELSE {FALSE} :
                        /\ tagTarget' = IF req THEN RemoveImage(lat.ID, tt, rm) ELSE tt
                        /\ Charge(rm)
                        /\ ret' = [ret EXCEPT ![p] =
                                     [Res([f EXCEPT !.needs = needs], TRUE, "")
                                        EXCEPT !.removed = IF req THEN lat.ID ELSE 0]]
    /\ UNCHANGED <<engine, zfs, rows, nextId, now, locked, holder, stack, crashed>>
    /\ UNCHANGED call

\* CheckContainer called from the command line, with or without --cleanup
Check(p) ==
    /\ Idle(p)
    /\ \E name \in Targets, cleanup \in BOOLEAN : CheckContainer(p, name, cleanup)
    /\ Spend(p)
    /\ UNCHANGED sched

\* update.go 79: the error of CreateSnapshot ends the update
PreSnapshotFailedMutantIgnored(out) == FALSE
PreSnapshotFailed(out) == ~out.ok

\* 69-81: the pre-update snapshot
UpdatePreSnapshot(p) ==
    /\ At(p, "update", "presnap")
    /\ ~locked
    /\ \E t \in {now + 1} :
         LET f == Top(p)
             out == CreateSnapshot(f.name, FALSE, TRUE, t)
         IN  /\ now' = t
             /\ rows' = out.rows
             /\ zfs' = out.zfs
             /\ nextId' = IF out.ok THEN nextId + 1 ELSE nextId
             /\ IF PreSnapshotFailed(out)
                THEN Return(p, Below(p), Res(f, FALSE, "presnap"))
                ELSE Continue(p, Below(p), [f EXCEPT !.pc = "lock", !.safety = out.id])
    /\ UNCHANGED <<engine, tagTarget, locked, holder, budget, faults, crashed>>
    /\ UNCHANGED <<call, sched>>

\* 107-121: the configuration the update recreates with, from the container
\* inspected at line 31
UpdateConfigMutantKeepLabel(ctn) ==
    [ctn.cfg EXCEPT !.image = IF ctn.cfg.orig # NoRef THEN ctn.cfg.orig ELSE @]
UpdateConfig(ctn) ==
    [ctn.cfg EXCEPT !.image = IF ctn.cfg.orig # NoRef THEN ctn.cfg.orig ELSE @,
                    !.snapid = 0]

\* 83-127: cm.lock.Lock() and RecreateContainer; a failed recreate returns
UpdateRecreate(p) ==
    /\ At(p, "update", "lock")
    /\ ~locked
    /\ LET f == Top(p)
           cfg == UpdateConfig(f.ctn)
       IN  \E stage \in Stages(engine[f.name]),
              b \in Behaviours(Resolve(cfg.image, tagTarget)) :
             LET r == RecreateContainer(engine[f.name], cfg, tagTarget, stage, b)
                 g == [f EXCEPT !.rec = TRUE]
             IN  /\ engine' = [engine EXCEPT ![f.name] = CreatedBy(r, "update", 0)]
                 /\ zfs' = DataAfter(zfs, f.name, r)
                 /\ Charge(stage # "none")
                 /\ IF r.ok
                    THEN /\ locked' = TRUE
                         /\ holder' = [p |-> p, d |-> Depth(p)]
                         /\ Continue(p, Below(p), [g EXCEPT !.pc = "wait"])
                    ELSE /\ UNCHANGED <<locked, holder>>
                         /\ Return(p, Below(p), Res(g, FALSE, "recreate"))
    /\ UNCHANGED <<tagTarget, rows, nextId, now, budget, crashed>>
    /\ UNCHANGED <<call, sched>>

\* 129-157: WaitForContainer; on failure Unlock and the compensating rollback
UpdateWait(p) ==
    /\ At(p, "update", "wait")
    /\ LET f == Top(p) IN
       \E bad \in Faulty :
         /\ Charge(bad)
         /\ IF Ready(engine[f.name]) /\ ~bad
            THEN ReturnDeferred(p, Below(p), Res(f, TRUE, ""))
            ELSE IF UnlockOk
                 THEN CallNested(p, Below(p), [f EXCEPT !.pc = "afterrb", !.rb = TRUE,
                                                        !.err = "wait"])
                 ELSE Fatal
    /\ UNCHANGED <<engine, tagTarget, zfs, rows, nextId, now, budget>>
    /\ UNCHANGED <<call, sched>>

\* 148-155: the error of an update that compensated: "update failed and
\* rollback failed: <rollback error> (original error: <wait error>)" or
\* "update failed (rolled back to previous version: <id>): <wait error>"
CompensationErrorMutantHidesRollback(sub) == "rolledback"
CompensationError(sub) == IF sub.err # "" \/ ~sub.ok THEN "rollbackfailed" ELSE "rolledback"

\* 148-157: the result of the compensation, then the deferred Unlock
UpdateAfterRollback(p) ==
    /\ At(p, "update", "afterrb")
    /\ Top(p).sub.done
    /\ LET f == Top(p) IN
       ReturnDeferred(p, Below(p), Res(f, FALSE, CompensationError(f.sub)))
    /\ UNCHANGED <<engine, tagTarget, zfs, rows, nextId, now, budget, faults>>
    /\ UNCHANGED <<call, sched>>

(***************************************************************************)
(* RollbackContainer (unnamed/part_004 171-343).                           *)
(***************************************************************************)
\* 183-205: inspect, the management gate and the snapshot lookup
RollbackGate(p, below, f) ==
    LET c == engine[f.name] IN
    IF ~c.exists THEN Return(p, below, Res(f, FALSE, "noctr"))
    ELSE IF ~IsContainerEnabled(c.cfg) THEN Return(p, below, Res(f, FALSE, "notenabled"))
    ELSE IF ~HasSnapshot(rows, f.name, f.opts.sid)
         THEN Return(p, below, Res(f, FALSE, "nosnap"))
    ELSE Continue(p, below, [f EXCEPT !.pc = "safety",
                                      !.snap = GetSnapshot(rows, f.name, f.opts.sid)])

\* the snapshot ids a caller may ask for: 0 (the most recent) or any id handed out
Ids == 0..(nextId - 1)

\* a rollback called from the command line
RollbackInspect(p) ==
    /\ Idle(p)
    /\ \E name \in Targets, sid \in Ids, image \in BOOLEAN, data \in BOOLEAN,
          force \in BOOLEAN :
         RollbackGate(p, <<>>,
                      Frame("rollback", "inspect", name,
                            [NoOpts EXCEPT !.sid = sid, !.image = image, !.data = data,
                                           !.config = TRUE, !.force = force]))
    /\ Spend(p)
    /\ UNCHANGED <<engine, tagTarget, zfs, rows, nextId, now, locked, holder, faults, crashed>>
    /\ UNCHANGED <<call, sched>>

\* a rollback called by a failed update or rollback
NestedInspect(p) ==
    /\ At(p, "rollback", "inspect")
    /\ RollbackGate(p, Below(p), Top(p))
    /\ UNCHANGED <<engine, tagTarget, zfs, rows, nextId, now, locked, holder, budget,
                   faults, crashed>>
    /\ UNCHANGED <<call, sched>>

\* 215-218: the error of CreateSnapshot ends the rollback
SafetySnapshotFailedMutantIgnored(out) == FALSE
SafetySnapshotFailed(out) == ~out.ok

\* 207-220: the safety snapshot
RollbackSafety(p) ==
    /\ At(p, "rollback", "safety")
    /\ ~locked
    /\ \E t \in {now + 1} :
         LET f == Top(p)
             out == CreateSnapshot(f.name, FALSE, TRUE, t)
         IN  /\ now' = t
             /\ rows' = out.rows
             /\ zfs' = out.zfs
             /\ nextId' = IF out.ok THEN nextId + 1 ELSE nextId
             /\ IF SafetySnapshotFailed(out)
                THEN Return(p, Below(p), Res(f, FALSE, "safety"))
                ELSE Continue(p, Below(p), [f EXCEPT !.pc = "lock", !.safety = out.id])
    /\ UNCHANGED <<engine, tagTarget, locked, holder, budget, faults, crashed>>
    /\ UNCHANGED <<call, sched>>

\* 266-313: the configuration the rollback recreates with
RollbackConfigMutantNoLabel(snap, opts) ==
    [snap.cfg EXCEPT !.snapid = snap.id,
                     !.image = IF opts.image THEN BestReference(snap.ref) ELSE @]
RollbackConfig(snap, opts) ==
    [snap.cfg EXCEPT !.snapid = snap.id,
                     !.image = IF opts.image THEN BestReference(snap.ref) ELSE @,
                     !.orig = IF opts.image THEN snap.ref.Original ELSE @]

\* the call of lines 274-319 that is made to fail
ApplyFaults(c, f) ==
    {"none"} \cup
    (IF faults > 0
     THEN {"create", "start"}
          \cup (IF c.exists THEN {"stop", "remove"} ELSE {})
          \cup (IF f.opts.image THEN {"pull"} ELSE {})
          \cup (IF f.opts.data /\ f.snap.zfs # NoHandle THEN {"zfs"} ELSE {})
     ELSE {})

\* 222-319: cm.lock.Lock(), the exact-version check, the pull, the dataset
\* rollback and RecreateContainer; on failure the deferred handler unlocks
\* and calls the recovery rollback
RollbackApply(p) ==
    /\ At(p, "rollback", "lock")
    /\ ~locked
    /\ LET f == Top(p)
           o == f.opts
           best == BestReference(f.snap.ref)
           cfg == RollbackConfig(f.snap, o)
           tt == IF o.image THEN PullTag(best, tagTarget) ELSE tagTarget
           withData == o.data /\ f.snap.zfs # NoHandle
           z1 == IF withData /\ HandleExists(zfs, f.snap.zfs)
                 THEN ZfsRollback(zfs, f.snap.zfs) ELSE zfs
           fail(err, g) == CallNested(p, Below(p), [g EXCEPT !.pc = "afterrec", !.err = err])
       IN  \E fault \in ApplyFaults(engine[f.name], f),
              b \in Behaviours(Resolve(cfg.image, tt)) :
             /\ Charge(fault # "none")
             /\ IF o.image /\ ~o.force /\ ~IsExactReference(f.snap.ref)
                THEN /\ fail("inexact", f)
                     /\ UNCHANGED <<engine, tagTarget, zfs>>
                ELSE IF o.image /\ (fault = "pull" \/ ~PullOk(best))
                THEN /\ fail("pull", f)
                     /\ UNCHANGED <<engine, tagTarget, zfs>>
                ELSE IF withData /\ (fault = "zfs" \/ ~HandleExists(zfs, f.snap.zfs))
                THEN /\ fail("zfs", f)
                     /\ tagTarget' = tt
                     /\ UNCHANGED <<engine, zfs>>
                ELSE LET r == RecreateContainer(engine[f.name], cfg, tt, fault, b)
                         g == [f EXCEPT !.rec = TRUE]
                     IN  /\ tagTarget' = tt
                         /\ engine' = [engine EXCEPT ![f.name] =
                                        CreatedBy(r, "rollback", f.snap.id)]
                         /\ zfs' = DataAfter(z1, f.name, r)
                         /\ IF r.ok
                            THEN /\ locked' = TRUE
                                 /\ holder' = [p |-> p, d |-> Depth(p)]
                                 /\ Continue(p, Below(p), [g EXCEPT !.pc = "wait"])
                                 /\ UNCHANGED crashed
                            ELSE fail("recreate", g)
    /\ UNCHANGED <<rows, nextId, now, budget>>
    /\ UNCHANGED <<call, sched>>

\* 321-343: WaitForContainer, then the deferred handler and the deferred Unlock
RollbackWait(p) ==
    /\ At(p, "rollback", "wait")
    /\ LET f == Top(p) IN
       \E bad \in Faulty :
         /\ Charge(bad)
         /\ IF Ready(engine[f.name]) /\ ~bad
            THEN ReturnDeferred(p, Below(p), Res(f, TRUE, ""))
            ELSE IF UnlockOk
                 THEN CallNested(p, Below(p), [f EXCEPT !.pc = "afterrec", !.err = "wait"])
                 ELSE Fatal
    /\ UNCHANGED <<engine, tagTarget, zfs, rows, nextId, now, budget>>
    /\ UNCHANGED <<call, sched>>

\* 240-245 and 223: the recovery's outcome is chained, then the deferred Unlock
RollbackAfterRecovery(p) ==
    /\ At(p, "rollback", "afterrec")
    /\ Top(p).sub.done
    /\ LET f == Top(p) IN
       ReturnDeferred(p, Below(p),
                      Res(f, FALSE, IF ~f.sub.ok THEN "restorefailed" ELSE f.err))
    /\ UNCHANGED <<engine, tagTarget, zfs, rows, nextId, now, budget, faults>>
    /\ UNCHANGED <<call, sched>>

Next ==
    \E p \in Procs :
        \/ Save(p)
        \/ Remove(p)
        \/ UpdateInspect(p)
        \/ UpdateCheck(p)
        \/ UpdatePreSnapshot(p)
        \/ UpdateRecreate(p)
        \/ UpdateWait(p)
        \/ UpdateAfterRollback(p)
        \/ RollbackInspect(p)
        \/ NestedInspect(p)
        \/ RollbackSafety(p)
        \/ RollbackApply(p)
        \/ RollbackWait(p)
        \/ RollbackAfterRecovery(p)

Spec == Init /\ [][Next]_vars

\* save, update and rollback only
NextOps ==
    \E p \in Procs :
        \/ Save(p)
        \/ UpdateInspect(p)
        \/ UpdateCheck(p)
        \/ UpdatePreSnapshot(p)
        \/ UpdateRecreate(p)
        \/ UpdateWait(p)
        \/ UpdateAfterRollback(p)
        \/ RollbackInspect(p)
        \/ NestedInspect(p)
        \/ RollbackSafety(p)
        \/ RollbackApply(p)
        \/ RollbackWait(p)
        \/ RollbackAfterRecovery(p)

SpecOps == Init /\ [][NextOps]_vars

\* two goroutines that save and update, as the scheduler's overlapping ticks
\* and a save beside them do
NextConc ==
    \E p \in Procs :
        \/ Save(p)
        \/ UpdateInspect(p)
        \/ UpdateCheck(p)
        \/ UpdatePreSnapshot(p)
        \/ UpdateRecreate(p)
        \/ UpdateWait(p)
        \/ UpdateAfterRollback(p)
        \/ NestedInspect(p)
        \/ RollbackSafety(p)
        \/ RollbackApply(p)
        \/ RollbackWait(p)
        \/ RollbackAfterRecovery(p)

SpecConc == InitConc /\ [][NextConc]_vars

\* every call of the command line, check included, on a container that may
\* lack the label zockimate.enable or may have exited
InitGates ==
    /\ \E enabled \in BOOLEAN, b \in {"good", "crash"} :
         engine = [n \in Names |->
                     IF n \in Targets
                     THEN Started([UserConfig EXCEPT !.enabled = enabled], 1, b)
                     ELSE Started(UserConfig, 1, "good")]
    /\ call = NoCall
    /\ sched = NewScheduler
    /\ tagTarget = 1
    /\ zfs = [n \in Names |->
                [data |-> 1,
                 snaps |-> IF n = "db" THEN <<[t |-> 0, data |-> 1]>> ELSE <<>>]]
    /\ rows = {LegacyRow, ForeignRow}
    /\ nextId = 3
    /\ now = 1
    /\ locked = FALSE
    /\ holder = NoHolder
    /\ stack = [p \in Procs |-> <<>>]
    /\ ret = [p \in Procs |-> NoRes]
    /\ crashed = FALSE
    /\ faults = MaxFaults
    /\ budget = [p \in Procs |-> IF p = "p1" THEN MaxOps ELSE 0]

NextGates ==
    \E p \in Procs :
        \/ Check(p)
        \/ Save(p)
        \/ Remove(p)
        \/ UpdateInspect(p)
        \/ UpdateCheck(p)
        \/ UpdatePreSnapshot(p)
        \/ UpdateRecreate(p)
        \/ UpdateWait(p)
        \/ UpdateAfterRollback(p)
        \/ RollbackInspect(p)
        \/ NestedInspect(p)
        \/ RollbackSafety(p)
        \/ RollbackApply(p)
        \/ RollbackWait(p)
        \/ RollbackAfterRecovery(p)

SpecGates == InitGates /\ [][NextGates]_vars

(***************************************************************************)
(* CleanupSnapshots (database.go 277-316) applied to arbitrary tables.     *)
(* sel says for every container and second whether a row was created then, *)
(* and whether with a dataset snapshot.                                    *)
(***************************************************************************)
Times == 1..MaxRows
Shapes == [Names \X Times -> {"none", "row", "rowzfs"}]

TableRow(name, t, withZfs) ==
    [id |-> IF name = "web" THEN t ELSE MaxRows + t, name |-> name,
     ref |-> [ID |-> 1, RepoDigest |-> 1, Tag |-> 1, Original |-> TagRef],
     cfg |-> UserConfig, zfs |-> IF withZfs THEN Handle(name, t) ELSE NoHandle,
     created_at |-> t]

InitCleanup ==
    /\ \E sel \in Shapes :
         /\ rows = {TableRow(x[1], x[2], sel[x] = "rowzfs") :
                      x \in {y \in Names \X Times : sel[y] # "none"}}
         /\ zfs = [n \in Names |->
                     [data |-> 1,
                      snaps |-> SelectSeq([t \in Times |-> [t |-> t, data |-> 1]],
                                          LAMBDA s : sel[<<n, s.t>>] = "rowzfs")]]
    /\ call = NoCall
    /\ sched = NewScheduler
    /\ engine = [n \in Names |-> Started(UserConfig, 1, "good")]
    /\ tagTarget = 1
    /\ nextId = 2 * MaxRows + 1
    /\ now = MaxRows + 1
    /\ locked = FALSE
    /\ holder = NoHolder
    /\ stack = [p \in Procs |-> <<>>]
    /\ ret = [p \in Procs |-> NoRes]
    /\ faults = 0
    /\ budget = [p \in Procs |-> 0]
    /\ crashed = FALSE

\* the result records retain (opts.sid) and whether rows were deleted (needs)
CleanupSnapshots(p, name, retain) ==
    /\ ~crashed
    /\ stack[p] = <<>>
    /\ rows' = CleanupRows(rows, name, retain)
    /\ zfs' = CleanupZfs(zfs, rows, name, retain)
    /\ ret' = [ret EXCEPT ![p] =
                 [Res(Frame("cleanup", "run", name, [NoOpts EXCEPT !.sid = retain]), TRUE, "")
                    EXCEPT !.needs = (CleanupRows(rows, name, retain) # rows)]]
    /\ UNCHANGED <<engine, tagTarget, nextId, now, locked, holder, stack, budget,
                   faults, crashed>>
    /\ UNCHANGED <<call, sched>>

\* CleanupSnapshots runs under cm.lock: one caller at a time
NextCleanup == \E name \in Names, retain \in Times : CleanupSnapshots("p1", name, retain)

SpecCleanup == InitCleanup /\ [][NextCleanup]_vars

(***************************************************************************)
(* The rollback command (cmd/zockimate/main.go 332-395) with every choice  *)
(* of aspects.  The table holds a snapshot of the container taken when it  *)
(* ran image 1 under the tag; the container has since been recreated on    *)
(* image 2, by the tag or pinned to its digest, and possibly without its   *)
(* dataset-backed volume.                                                  *)
(***************************************************************************)
PreUpdateRow ==
    [id |-> 3, name |-> "web",
     ref |-> [ID |-> 1, RepoDigest |-> 1, Tag |-> 1, Original |-> TagRef],
     cfg |-> UserConfig, zfs |-> Handle("web", 2), created_at |-> 2]

\* GetImageInfo (zfs.go 146-165) of image 1: the id always, the first repo
\* digest and the first repo tag when the image has any
SavedRefs ==
    {[ID |-> 1, RepoDigest |-> d, Tag |-> t, Original |-> TagRef] :
        d \in {0, 1}, t \in {0, 1}}

InitAspects ==
    /\ call = NoCall
    /\ sched = NewScheduler
    /\ \E pinned \in BOOLEAN, withZfs \in BOOLEAN, dataset \in BOOLEAN, ref \in SavedRefs :
         /\ engine = [n \in Names |->
                        IF n \in Targets
                        THEN Started([UserConfig EXCEPT
                                        !.image = IF pinned THEN DigestRef(2) ELSE @,
                                        !.dataset = dataset], 2, "good")
                        ELSE Started(UserConfig, 1, "good")]
         /\ tagTarget \in (IF pinned THEN Images ELSE {2})
         /\ rows = {LegacyRow, ForeignRow,
                    [PreUpdateRow EXCEPT !.zfs = IF withZfs THEN @ ELSE NoHandle,
                                         !.ref = ref]}
         /\ zfs = [n \in Names |->
                     [data |-> IF n = "db" THEN 1 ELSE 2,
                      snaps |-> IF n = "db" THEN <<[t |-> 0, data |-> 1]>>
                                ELSE IF withZfs THEN <<[t |-> 2, data |-> 1]>> ELSE <<>>]]
    /\ nextId = 4
    /\ now = 3
    /\ locked = FALSE
    /\ holder = NoHolder
    /\ stack = [p \in Procs |-> <<>>]
    /\ ret = [p \in Procs |-> NoRes]
    /\ crashed = FALSE
    /\ faults = MaxFaults
    /\ budget = [p \in Procs |-> IF p = "p1" THEN 1 ELSE 0]

\* main.go 363-365: at least one of --image, --data, --config
RollbackCommand(p) ==
    /\ Idle(p)
    /\ \E name \in Targets, sid \in {0, 1}, image \in BOOLEAN, data \in BOOLEAN,
          config \in BOOLEAN, force \in BOOLEAN :
         /\ image \/ data \/ config
         /\ RollbackGate(p, <<>>,
                         Frame("rollback", "inspect", name,
                               [NoOpts EXCEPT !.sid = sid, !.image = image, !.data = data,
                                              !.config = config, !.force = force]))
    /\ Spend(p)
    /\ UNCHANGED <<engine, tagTarget, zfs, rows, nextId, now, locked, holder, faults, crashed>>
    /\ UNCHANGED <<call, sched>>

NextAspects ==
    \E p \in Procs :
        \/ RollbackCommand(p)
        \/ NestedInspect(p)
        \/ RollbackSafety(p)
        \/ RollbackApply(p)
        \/ RollbackWait(p)
        \/ RollbackAfterRecovery(p)

SpecAspects == InitAspects /\ [][NextAspects]_vars

(***************************************************************************)
(* RemoveEntries (database.go 338-394) applied once to arbitrary tables,   *)
(* as RemoveContainer (unnamed/part_005 46-54) calls it.                   *)
(***************************************************************************)
\* opts.Before: unset, or a date; opts.OlderThan: unset, or a duration
Befores == {0} \cup {t \in 1..(MaxRows + 1) : t % DayLength = 0}
OlderThans == {0, DayLength}

RemoveEntriesCall(p, name, opts) ==
    /\ ~crashed
    /\ stack[p] = <<>>
    /\ ret[p] = NoRes
    /\ LET out == RemoveEntries(rows, zfs, name, opts, now)
       IN  /\ rows' = out.rows
           /\ zfs' = out.zfs
           /\ ret' = [ret EXCEPT ![p] =
                        [Res(Frame("remove", "run", name, opts), out.ok,
                             IF out.ok THEN "" ELSE "remove")
                           EXCEPT !.count = out.count]]
    /\ UNCHANGED <<engine, tagTarget, nextId, now, locked, holder, stack, budget,
                   faults, crashed>>
    /\ UNCHANGED <<call, sched>>

NextRemove ==
    \E name \in Names, all \in BOOLEAN, before \in Befores, olderThan \in OlderThans,
       withZfs \in BOOLEAN :
        RemoveEntriesCall("p1", name,
                          [NoOpts EXCEPT !.all = all, !.before = before,
                                         !.olderThan = olderThan, !.zfs = withZfs])

SpecRemove == InitCleanup /\ [][NextRemove]_vars

(***************************************************************************)
(* RenameContainer (unnamed/part_005 150-225) applied once to arbitrary    *)
(* tables; the container "db" may be absent from the engine while the      *)
(* table still holds rows of it.                                           *)
(***************************************************************************)
\* Database.RenameContainer (database.go 318-337): refused when a row already
\* uses newName; else every row of oldName is updated
DbRenameContainerMutantNoCheck(rs, oldName, newName, fails) ==
    [ok |-> TRUE, affected |-> Cardinality(RowsOf(rs, oldName)),
     rows |-> {IF r.name = oldName THEN [r EXCEPT !.name = newName] ELSE r : r \in rs}]
DbRenameContainer(rs, oldName, newName, fails) ==
    IF RowsOf(rs, newName) # {} \/ fails
    THEN [ok |-> FALSE, affected |-> 0, rows |-> rs]
    ELSE [ok |-> TRUE, affected |-> Cardinality(RowsOf(rs, oldName)),
          rows |-> {IF r.name = oldName THEN [r EXCEPT !.name = newName] ELSE r : r \in rs}]

\* docker.ContainerRename: the engine refuses a name that is taken
ContainerRename(e, oldName, newName, fails) ==
    IF fails \/ ~e[oldName].exists \/ e[newName].exists
    THEN [ok |-> FALSE, engine |-> e]
    ELSE [ok |-> TRUE,
          engine |-> [e EXCEPT ![oldName] = NoContainer, ![newName] = e[oldName]]]

InitRename ==
    /\ \E sel \in Shapes :
         /\ rows = {TableRow(x[1], x[2], sel[x] = "rowzfs") :
                      x \in {y \in Names \X Times : sel[y] # "none"}}
         /\ zfs = [n \in Names |->
                     [data |-> 1,
                      snaps |-> SelectSeq([t \in Times |-> [t |-> t, data |-> 1]],
                                          LAMBDA s : sel[<<n, s.t>>] = "rowzfs")]]
    /\ \E enabled \in BOOLEAN, b \in {"good", "crash"}, other \in BOOLEAN :
         engine = [n \in Names |->
                     IF n \in Targets
                     THEN Started([UserConfig EXCEPT !.enabled = enabled], 1, b)
                     ELSE IF other THEN Started(UserConfig, 1, "good") ELSE NoContainer]
    /\ call = NoCall
    /\ sched = NewScheduler
    /\ tagTarget = 1
    /\ nextId = 2 * MaxRows + 1
    /\ now = MaxRows + 1
    /\ locked = FALSE
    /\ holder = NoHolder
    /\ stack = [p \in Procs |-> <<>>]
    /\ ret = [p \in Procs |-> NoRes]
    /\ faults = MaxFaults
    /\ budget = [p \in Procs |-> 0]
    /\ crashed = FALSE

\* the result a rename returns: Success, Error, DockerRenamed, EntriesRenamed
RenameResult(oldName, newName, dbOnly, ok, err, renamed, affected) ==
    [Res(Frame("rename", "run", oldName, [NoOpts EXCEPT !.dbOnly = dbOnly]), ok, err)
       EXCEPT !.newName = newName, !.renamed = renamed, !.count = affected]

\* the whole call runs under cm.lock; fr, fd and fv are the failures injected
\* into the engine rename, the table update and the reverting engine rename
RenameContainer(p, oldName, newName, dbOnly) ==
    /\ ~crashed
    /\ stack[p] = <<>>
    /\ ret[p] = NoRes
    /\ ~locked
    /\ \E fr \in Faulty, fd \in Faulty, fv \in Faulty :
         LET gate == IF dbOnly THEN ""
                     ELSE IF engine[newName].exists THEN "exists"
                     ELSE IF ~engine[oldName].exists THEN "missing"
                     ELSE IF ~IsContainerEnabled(engine[oldName].cfg) THEN "disabled"
                     ELSE IF ~engine[oldName].running THEN "stopped"
                     ELSE ""
             ren  == IF dbOnly \/ gate # "" THEN [ok |-> FALSE, engine |-> engine]
                     ELSE ContainerRename(engine, oldName, newName, fr)
             db   == DbRenameContainer(rows, oldName, newName, fd)
             rev  == ContainerRename(ren.engine, newName, oldName, fv)
             used == (IF ~dbOnly /\ gate = "" /\ fr THEN 1 ELSE 0)
                     + (IF (dbOnly \/ ren.ok) /\ fd THEN 1 ELSE 0)
                     + (IF ren.ok /\ ~db.ok /\ fv THEN 1 ELSE 0)
         IN  /\ used <= faults
             /\ (dbOnly \/ gate # "" => ~fr)
             /\ (~(dbOnly \/ ren.ok) => ~fd)
             /\ (~(ren.ok /\ ~db.ok) => ~fv)
             /\ faults' = faults - used
             /\ IF gate # ""
                THEN /\ ret' = [ret EXCEPT ![p] =
                                  RenameResult(oldName, newName, dbOnly, FALSE, gate, FALSE, 0)]
                     /\ UNCHANGED <<engine, rows>>
                ELSE IF ~dbOnly /\ ~ren.ok
                THEN /\ ret' = [ret EXCEPT ![p] =
                                  RenameResult(oldName, newName, dbOnly, FALSE, "rename", FALSE, 0)]
                     /\ UNCHANGED <<engine, rows>>
                ELSE IF ~db.ok
                THEN /\ engine' = IF ren.ok THEN rev.engine ELSE engine
                     /\ ret' = [ret EXCEPT ![p] =
                                  RenameResult(oldName, newName, dbOnly, FALSE,
                                               IF ren.ok /\ ~rev.ok THEN "database+revert"
                                               ELSE "database",
                                               ren.ok, 0)]
                     /\ UNCHANGED rows
                ELSE /\ engine' = ren.engine
                     /\ rows' = db.rows
                     /\ ret' = [ret EXCEPT ![p] =
                                  RenameResult(oldName, newName, dbOnly, TRUE, "",
                                               ren.ok, db.affected)]
    /\ UNCHANGED <<tagTarget, zfs, nextId, now, locked, holder, stack, budget, crashed>>
    /\ UNCHANGED <<call, sched>>

NextRename ==
    \E oldName \in Names, newName \in Names, dbOnly \in BOOLEAN :
        RenameContainer("p1", oldName, newName, dbOnly)

SpecRename == InitRename /\ [][NextRename]_vars

(***************************************************************************)
(* The image comparison of CheckContainer (check.go 78-95) and GetTimeout  *)
(* (cmd/zockimate/main.go 654-669) applied to arbitrary arguments.         *)
(***************************************************************************)
\* what GetImageInfo can return: the id is always set, the digest and the tag
\* only when the image has them
ImageInfos ==
    [ID : Images, RepoDigest : {0} \cup Images, Tag : {0, 1}, Original : {NoRef}]

\* check.go 70-95: the platform check and the comparison
Compare(cur, lat, samePlatform) ==
    IF ~samePlatform
    THEN [needs |-> FALSE, err |-> "architecture mismatch"]
    ELSE [needs |-> NeedsUpdate(cur, lat), err |-> ""]

\* seconds per unit of a duration string; "" is a number without unit
Units == {"s", "m", "h", ""}
UnitSeconds(u) == IF u = "h" THEN 3600 ELSE IF u = "m" THEN 60 ELSE 1

Numbers == {0, 1, 24, 29, 30}
Terms == [n : Numbers, u : Units]
Texts == {<<>>} \cup {<<a>> : a \in Terms} \cup {<<a, b>> : a \in Terms, b \in {x \in Terms : x.n = 1}}
Labels == {NoLabel} \cup [present : {TRUE}, neg : BOOLEAN, terms : Texts]
\* opts.Timeout: DefaultContainerReadyTimeout and DefaultOperationTimeout
Defaults == {1800, 600}

RECURSIVE SumTerms(_)
SumTerms(ts) ==
    IF ts = <<>> THEN 0 ELSE ts[1].n * UnitSeconds(ts[1].u) + SumTerms(Tail(ts))

\* time.ParseDuration: "0" alone is 0; the empty string, a string that is only
\* a sign, and a number without unit are errors; else the signed sum
ParseDuration(l) ==
    IF l.terms = <<[n |-> 0, u |-> ""]>> THEN [ok |-> TRUE, d |-> 0]
    ELSE IF l.terms = <<>> \/ \E i \in 1..Len(l.terms) : l.terms[i].u = ""
         THEN [ok |-> FALSE, d |-> 0]
    ELSE [ok |-> TRUE, d |-> IF l.neg THEN 0 - SumTerms(l.terms) ELSE SumTerms(l.terms)]

\* main.go 654-669
GetTimeout(label, defaultTimeout) ==
    IF label.present
    THEN LET p == ParseDuration(label)
         IN  IF p.ok /\ p.d > 0 /\ p.d <= 24 * UnitSeconds("h")
             THEN p.d ELSE defaultTimeout
    ELSE defaultTimeout

InitHelpers ==
    /\ InitStores
    /\ faults = 0
    /\ budget = [p \in Procs |-> 0]

\* the arguments of a call
Prepare ==
    /\ call = NoCall
    /\ \/ \E cur \in ImageInfos, lat \in ImageInfos, same \in BOOLEAN :
            call' = [NoCall EXCEPT !.fn = "Compare", !.cur = cur, !.lat = lat,
                                   !.samePlatform = same]
       \/ \E label \in Labels, def \in Defaults :
            call' = [NoCall EXCEPT !.fn = "GetTimeout", !.label = label, !.def = def]
    /\ UNCHANGED <<engine, tagTarget, zfs, rows, nextId, now, locked, holder, stack,
                   budget, ret, faults, crashed, sched>>

CallCompare ==
    /\ call.fn = "Compare" /\ ~call.done
    /\ LET out == Compare(call.cur, call.lat, call.samePlatform)
       IN  call' = [call EXCEPT !.done = TRUE, !.needs = out.needs, !.err = out.err]
    /\ UNCHANGED <<engine, tagTarget, zfs, rows, nextId, now, locked, holder, stack,
                   budget, ret, faults, crashed, sched>>

CallGetTimeout ==
    /\ call.fn = "GetTimeout" /\ ~call.done
    /\ call' = [call EXCEPT !.done = TRUE, !.timeout = GetTimeout(call.label, call.def)]
    /\ UNCHANGED <<engine, tagTarget, zfs, rows, nextId, now, locked, holder, stack,
                   budget, ret, faults, crashed, sched>>

NextHelpers ==
    \/ Prepare
    \/ CallCompare
    \/ CallGetTimeout

SpecHelpers == InitHelpers /\ [][NextHelpers]_vars

(***************************************************************************)
(* UpdateContainer called with or without opts.DryRun.                     *)
(***************************************************************************)
UpdateCommand(p) ==
    /\ Idle(p)
    /\ \E name \in Targets, force \in BOOLEAN, dryRun \in BOOLEAN :
         UpdateBegin(p, name, [NoOpts EXCEPT !.force = force, !.dryRun = dryRun])
    /\ Spend(p)
    /\ UNCHANGED sched

NextDryRun ==
    \E p \in Procs :
        \/ UpdateCommand(p)
        \/ UpdateCheck(p)
        \/ UpdatePreSnapshot(p)
        \/ UpdateRecreate(p)
        \/ UpdateWait(p)
        \/ UpdateAfterRollback(p)
        \/ NestedInspect(p)
        \/ RollbackSafety(p)
        \/ RollbackApply(p)
        \/ RollbackWait(p)
        \/ RollbackAfterRecovery(p)

SpecDryRun == Init /\ [][NextDryRun]_vars

(***************************************************************************)
(* CreateSnapshot with one of its calls made to fail, on containers with   *)
(* or without dataset, running or not, twice within a second or not.       *)
(***************************************************************************)
SnapshotFaults ==
    {"none"} \cup (IF faults > 0 THEN {"inspect", "image", "zfs", "configs", "insert"} ELSE {})

InitSnapshot ==
    /\ call = NoCall
    /\ sched = NewScheduler
    /\ engine \in [Names -> {[Started([UserConfig EXCEPT !.dataset = dataset], 1, "good")
                                EXCEPT !.running = running] :
                                dataset \in BOOLEAN, running \in BOOLEAN}]
    /\ tagTarget = 1
    /\ zfs = [n \in Names |->
                [data |-> 1,
                 snaps |-> IF n = "db" THEN <<[t |-> 0, data |-> 1]>> ELSE <<>>]]
    /\ rows = {LegacyRow, ForeignRow}
    /\ nextId = 3
    /\ now = 1
    /\ locked = FALSE
    /\ holder = NoHolder
    /\ stack = [p \in Procs |-> <<>>]
    /\ ret = [p \in Procs |-> NoRes]
    /\ crashed = FALSE
    /\ faults = MaxFaults
    /\ budget = [p \in Procs |-> IF p = "p1" THEN MaxOps ELSE 0]

SnapshotCall(p) ==
    /\ Idle(p)
    /\ ~locked
    /\ \E name \in Names, force \in BOOLEAN, noCleanup \in BOOLEAN, t \in {now, now + 1},
          fault \in SnapshotFaults :
         LET out == CreateSnapshotWith(name, force, noCleanup, t, fault)
             f == [Frame("save", "run", name,
                         [NoOpts EXCEPT !.force = force, !.noCleanup = noCleanup])
                     EXCEPT !.safety = out.id]
         IN  /\ Charge(fault # "none")
             /\ now' = t
             /\ rows' = out.rows
             /\ zfs' = out.zfs
             /\ nextId' = IF out.ok THEN nextId + 1 ELSE nextId
             /\ ret' = [ret EXCEPT ![p] = Res(f, out.ok, IF out.ok THEN "" ELSE fault)]
    /\ Spend(p)
    /\ UNCHANGED <<engine, tagTarget, locked, holder, stack, crashed>>
    /\ UNCHANGED <<call, sched>>

NextSnapshot == \E p \in Procs : SnapshotCall(p)

SpecSnapshot == InitSnapshot /\ [][NextSnapshot]_vars

(***************************************************************************)
(* RecreateContainer (zfs.go 167-199) followed engine call by engine call. *)
(* call.log lists the calls made so far with their outcome, call.old is    *)
(* the container the engine held when the function was entered.            *)
(***************************************************************************)
RecreateConfigs == {UserConfig, [UserConfig EXCEPT !.image = DigestRef(2)]}

InitRecreate ==
    /\ \E c \in {NoContainer} \cup
                {[Started(UserConfig, 1, "good") EXCEPT !.running = r, !.health = h] :
                    r \in BOOLEAN, h \in {"none", "healthy", "unhealthy"}} :
         /\ engine = [n \in Names |-> IF n \in Targets THEN c ELSE Started(UserConfig, 1, "good")]
         /\ \E cfg \in RecreateConfigs :
              call = [fn |-> "RecreateContainer", name |-> "web", cfg |-> cfg,
                      pc |-> "inspect", log |-> <<>>, err |-> "", old |-> c]
    /\ sched = NewScheduler
    /\ tagTarget \in {0} \cup Images
    /\ zfs = [n \in Names |-> [data |-> 1, snaps |-> <<>>]]
    /\ rows = {}
    /\ nextId = 1
    /\ now = 1
    /\ locked = TRUE
    /\ holder = [p |-> "p1", d |-> 1]
    /\ stack = [p \in Procs |-> <<>>]
    /\ ret = [p \in Procs |-> NoRes]
    /\ crashed = FALSE
    /\ faults = MaxFaults
    /\ budget = [p \in Procs |-> 0]

Called(c, op, ok, pc, err) ==
    [c EXCEPT !.log = Append(@, [op |-> op, ok |-> ok]), !.pc = pc, !.err = err]

\* 172: stop and remove are skipped when the inspect returns an error
EngineInspect ==
    /\ call.fn = "RecreateContainer" /\ call.pc = "inspect"
    /\ \E bad \in Faulty :
         LET found == ~bad /\ engine[call.name].exists IN
         /\ Charge(bad)
         /\ call' = Called(call, "inspect", found, IF found THEN "stop" ELSE "create", "")
    /\ UNCHANGED <<engine, tagTarget, zfs, rows, nextId, now, locked, holder, stack,
                   budget, ret, crashed, sched>>

\* 176-178: a failed stop returns
StopFailedMutantIgnored(bad) == FALSE
StopFailed(bad) == bad

\* 173-178: ContainerStop
EngineStop ==
    /\ call.fn = "RecreateContainer" /\ call.pc = "stop"
    /\ \E bad \in Faulty :
         /\ Charge(bad)
         /\ engine' = IF bad THEN engine
                      ELSE [engine EXCEPT ![call.name].running = FALSE]
         /\ call' = IF StopFailed(bad)
                    THEN Called(call, "stop", FALSE, "done", "stop")
                    ELSE Called(call, "stop", ~bad, "remove", "")
    /\ UNCHANGED <<tagTarget, zfs, rows, nextId, now, locked, holder, stack,
                   budget, ret, crashed, sched>>

\* 180-184: ContainerRemove, forced
EngineRemove ==
    /\ call.fn = "RecreateContainer" /\ call.pc = "remove"
    /\ \E bad \in Faulty :
         /\ Charge(bad)
         /\ engine' = IF bad THEN engine ELSE [engine EXCEPT ![call.name] = NoContainer]
         /\ call' = IF bad THEN Called(call, "remove", FALSE, "done", "remove")
                    ELSE Called(call, "remove", TRUE, "create", "")
    /\ UNCHANGED <<tagTarget, zfs, rows, nextId, now, locked, holder, stack,
                   budget, ret, crashed, sched>>

\* 187-190: ContainerCreate; the engine refuses a name that is in use and an
\* image it does not have
EngineCreate ==
    /\ call.fn = "RecreateContainer" /\ call.pc = "create"
    /\ \E bad \in Faulty :
         LET img == Resolve(call.cfg.image, tagTarget)
             failed == bad \/ img = 0 \/ engine[call.name].exists
         IN  /\ Charge(bad)
             /\ engine' = IF failed THEN engine
                          ELSE [engine EXCEPT ![call.name] =
                                  [Started(call.cfg, img, "crash") EXCEPT !.health = "none"]]
             /\ call' = IF failed THEN Called(call, "create", FALSE, "done", "create")
                        ELSE Called(call, "create", TRUE, "start", "")
    /\ UNCHANGED <<tagTarget, zfs, rows, nextId, now, locked, holder, stack,
                   budget, ret, crashed, sched>>

\* 193-196: ContainerStart
EngineStart ==
    /\ call.fn = "RecreateContainer" /\ call.pc = "start"
    /\ \E bad \in Faulty, b \in Behaviours(engine[call.name].image) :
         /\ Charge(bad)
         /\ engine' = IF bad THEN engine
                      ELSE [engine EXCEPT ![call.name] =
                              Started(call.cfg, engine[call.name].image, b)]
         /\ call' = IF bad THEN Called(call, "start", FALSE, "done", "start")
                    ELSE Called(call, "start", TRUE, "done", "")
    /\ UNCHANGED <<tagTarget, zfs, rows, nextId, now, locked, holder, stack,
                   budget, ret, crashed, sched>>

NextRecreate ==
    \/ EngineInspect
    \/ EngineStop
    \/ EngineRemove
    \/ EngineCreate
    \/ EngineStart

SpecRecreate == InitRecreate /\ [][NextRecreate]_vars

(***************************************************************************)
(* WaitForContainer (zfs.go 201-228) followed poll by poll: a context that *)
(* expires after the timeout, a ticker of one second, and a container that *)
(* changes while the call waits.                                           *)
(***************************************************************************)
\* what an inspect may find: no container, or one that runs or not, without
\* health check or with the status of its health check
HealthStatuses == {"none", "starting", "healthy", "unhealthy"}
Observable ==
    {NoContainer} \cup
    {[Started(UserConfig, 1, "good") EXCEPT !.running = r, !.health = h] :
        r \in BOOLEAN, h \in HealthStatuses}

InitWait ==
    /\ \E timeout \in 0..MaxWait :
         call = [NoCall EXCEPT !.fn = "WaitForContainer", !.timeout = timeout]
    /\ \E c \in Observable \ {NoContainer} :
         engine = [n \in Names |-> IF n \in Targets THEN c ELSE Started(UserConfig, 1, "good")]
    /\ sched = NewScheduler
    /\ tagTarget = 1
    /\ zfs = [n \in Names |-> [data |-> 1, snaps |-> <<>>]]
    /\ rows = {}
    /\ nextId = 1
    /\ now = 1
    /\ locked = TRUE
    /\ holder = [p |-> "p1", d |-> 1]
    /\ stack = [p \in Procs |-> <<>>]
    /\ ret = [p \in Procs |-> NoRes]
    /\ crashed = FALSE
    /\ faults = MaxFaults
    /\ budget = [p \in Procs |-> 0]

\* 203: the context of the call is done once the timeout has elapsed
ExpiredMutantNever(c) == FALSE
Expired(c) == c.elapsed >= c.timeout

\* a second passes: the ticker sends on its channel, which holds one value
Second ==
    /\ call.fn = "WaitForContainer" /\ ~call.done
    /\ call.elapsed <= MaxWait
    /\ call' = [call EXCEPT !.elapsed = @ + 1, !.tick = TRUE]
    /\ UNCHANGED <<engine, tagTarget, zfs, rows, nextId, now, locked, holder, stack,
                   budget, ret, faults, crashed, sched>>

\* the container starts, exits, is removed, or its health check reports
ContainerChange ==
    /\ call.fn = "WaitForContainer" /\ ~call.done
    /\ \E name \in Targets, c \in Observable :
         /\ c # engine[name]
         /\ (engine[name].health = "none") = (c.health = "none") \/ ~c.exists
         /\ engine[name].exists
         /\ engine' = [engine EXCEPT ![name] = c]
    /\ UNCHANGED <<tagTarget, zfs, rows, nextId, now, locked, holder, stack,
                   budget, ret, faults, crashed, call, sched>>

\* 213-225, case <-ticker.C: one poll.  An inspect with the expired context
\* fails, as does one of a container that is gone
WaitPoll ==
    /\ call.fn = "WaitForContainer" /\ ~call.done
    /\ call.tick
    /\ \E name \in Targets, bad \in Faulty :
         LET c == engine[name]
             failed == bad \/ ~c.exists \/ Expired(call)
         IN  /\ Charge(bad)
             /\ call' = [call EXCEPT
                           !.tick = FALSE,
                           !.polls = @ + 1,
                           !.observed = IF failed THEN NoContainer ELSE c,
                           !.done = failed \/ Ready(c),
                           !.err = IF failed THEN "inspect" ELSE ""]
    /\ UNCHANGED <<engine, tagTarget, zfs, rows, nextId, now, locked, holder, stack,
                   budget, ret, crashed, sched>>

\* 211-212, case <-ctx.Done()
WaitTimeout ==
    /\ call.fn = "WaitForContainer" /\ ~call.done
    /\ Expired(call)
    /\ call' = [call EXCEPT !.done = TRUE, !.err = "timeout"]
    /\ UNCHANGED <<engine, tagTarget, zfs, rows, nextId, now, locked, holder, stack,
                   budget, ret, faults, crashed, sched>>

NextWait ==
    \/ Second
    \/ ContainerChange
    \/ WaitPoll
    \/ WaitTimeout

SpecWait == InitWait /\ [][NextWait]_vars

\* time passes, and the goroutine that waits in the select is scheduled when a
\* case of the select is ready
WaitFairness == WF_vars(Second) /\ WF_vars(WaitPoll) /\ WF_vars(WaitTimeout)

SpecWaitFair == SpecWait /\ WaitFairness

(***************************************************************************)
(* The Scheduler (internal/scheduler/scheduler.go): the cron that starts a *)
(* task per tick, each in its own goroutine; the goroutine that waits for  *)
(* SIGINT/SIGTERM or for stopChan; Stop, called by that goroutine on a     *)
(* signal or by a user of the package.  The command (main.go 465-483)      *)
(* blocks in select {} after Start.                                        *)
(***************************************************************************)
\* the scheduler takes a step to the state s
SchedStep(s) ==
    /\ ~sched.panicked
    /\ sched' = s
    /\ UNCHANGED <<engine, tagTarget, zfs, rows, nextId, now, locked, holder, stack,
                   budget, ret, faults, crashed, call>>

\* 66-97: Start: cron.Start(), signal.Notify, wg.Add(1) and the signal goroutine
Start ==
    /\ sched.cron = "new"
    /\ SchedStep([sched EXCEPT !.cron = "running", !.wg = @ + 1, !.handler = "select"])

\* a tick of the running cron starts runScheduledTask in a new goroutine
Tick(i) ==
    /\ sched.cron = "running"
    /\ sched.task[i] = "none"
    /\ \A j \in Tasks : j < i => sched.task[j] # "none"
    /\ SchedStep([sched EXCEPT !.task[i] = "list"])

\* 100-117: the task lists the containers; with none, or on an error, it returns
TaskList(i) ==
    /\ sched.task[i] = "list"
    /\ \E next \in {"perform", "done"} : SchedStep([sched EXCEPT !.task[i] = next])

\* 119-123: performScheduledCheck or performScheduledUpdate, to its end
TaskPerform(i) ==
    /\ sched.task[i] = "perform"
    /\ SchedStep([sched EXCEPT !.task[i] = "done"])

\* the operating system delivers SIGINT or SIGTERM into sigChan
Signal ==
    /\ sched.cron # "new"
    /\ sched.signalled = "none"
    /\ SchedStep([sched EXCEPT !.signalled = "pending"])

\* 88-90: the goroutine receives the signal and calls s.Stop()
HandlerSignal ==
    /\ sched.handler = "select"
    /\ sched.signalled = "pending"
    /\ SchedStep([sched EXCEPT !.handler = "stopping", !.signalled = "received",
                               !.stop["signal"] = "cron"])

\* 91-92 and 86: the goroutine finds stopChan closed, returns, wg.Done()
HandlerStopChan ==
    /\ sched.handler = "select"
    /\ sched.stopChan = "closed"
    /\ SchedStep([sched EXCEPT !.handler = "done", !.wg = @ - 1])

\* a user of the package calls Stop
StopCall ==
    /\ sched.cron # "new"
    /\ sched.stop["api"] = "none"
    /\ SchedStep([sched EXCEPT !.stop["api"] = "cron"])

\* 199: s.cron.Stop(): no further tick; the context ends when the tasks have
StopCron(c) ==
    /\ sched.stop[c] = "cron"
    /\ SchedStep([sched EXCEPT !.cron = "stopped", !.stop[c] = "close"])

\* 202: close(s.stopChan); closing a closed channel panics
StopClose(c) ==
    /\ sched.stop[c] = "close"
    /\ IF sched.stopChan = "closed"
       THEN SchedStep([sched EXCEPT !.panicked = TRUE])
       ELSE SchedStep([sched EXCEPT !.stopChan = "closed", !.stop[c] = "wgwait"])

\* 205: s.wg.Wait() returns when the counter is zero
StopWgWait(c) ==
    /\ sched.stop[c] = "wgwait"
    /\ sched.wg = 0
    /\ SchedStep([sched EXCEPT !.stop[c] = "ctxwait"])

\* 208-210: <-ctx.Done() returns when no task runs, and Stop returns; in the
\* signal goroutine the function then ends and its deferred wg.Done() runs
StopCtxDone(c) ==
    /\ sched.stop[c] = "ctxwait"
    /\ \A i \in Tasks : sched.task[i] \in {"none", "done"}
    /\ SchedStep(IF c = "signal"
                 THEN [sched EXCEPT !.stop[c] = "returned", !.handler = "done", !.wg = @ - 1]
                 ELSE [sched EXCEPT !.stop[c] = "returned"])

NextSched ==
    \/ Start
    \/ \E i \in Tasks : Tick(i)
    \/ \E i \in Tasks : TaskList(i)
    \/ \E i \in Tasks : TaskPerform(i)
    \/ Signal
    \/ HandlerSignal
    \/ HandlerStopChan
    \/ StopCall
    \/ \E c \in Stoppers : StopCron(c)
    \/ \E c \in Stoppers : StopClose(c)
    \/ \E c \in Stoppers : StopWgWait(c)
    \/ \E c \in Stoppers : StopCtxDone(c)

SpecSched == InitHelpers /\ [][NextSched]_vars

\* every goroutine that can take a step is eventually scheduled; ticks, signals
\* and calls from outside may or may not come
SchedFairness ==
    /\ WF_vars(Start)
    /\ \A i \in Tasks : WF_vars(TaskList(i)) /\ WF_vars(TaskPerform(i))
    /\ WF_vars(HandlerSignal)
    /\ WF_vars(HandlerStopChan)
    /\ \A c \in Stoppers :
         WF_vars(StopCron(c)) /\ WF_vars(StopClose(c)) /\ WF_vars(StopWgWait(c))
         /\ WF_vars(StopCtxDone(c))

SpecSchedFair == SpecSched /\ SchedFairness

(***************************************************************************)
(* A batch: performScheduledCheck and performScheduledUpdate (scheduler.go *)
(* 126-192) and the loop of the update command (cmd/zockimate/main.go      *)
(* 189-226) over a list of names, one goroutine.                           *)
(***************************************************************************)
Batches == [1..MaxBatch -> Names]

InitBatch ==
    /\ call = NoCall
    /\ \E l \in Batches, checkOnly \in BOOLEAN, force \in BOOLEAN, cleanup \in BOOLEAN :
         /\ checkOnly => ~force
         /\ ~checkOnly => ~cleanup
         /\ sched = [NewScheduler EXCEPT
                       !.batch = [NoBatch EXCEPT !.checkOnly = checkOnly, !.force = force,
                                                 !.cleanup = cleanup,
                                                 !.containers = l, !.i = 1]]
    /\ engine = [n \in Names |-> Started(UserConfig, 1, "good")]
    /\ tagTarget = 1
    /\ zfs = [n \in Names |->
                [data |-> 1,
                 snaps |-> IF n = "db" THEN <<[t |-> 0, data |-> 1]>> ELSE <<>>]]
    /\ rows = {LegacyRow, ForeignRow}
    /\ nextId = 3
    /\ now = 1
    /\ locked = FALSE
    /\ holder = NoHolder
    /\ stack = [p \in Procs |-> <<>>]
    /\ ret = [p \in Procs |-> NoRes]
    /\ crashed = FALSE
    /\ faults = MaxFaults
    /\ budget = [p \in Procs |-> 0]

\* UpdateContainer returned a non-nil error beside the result (update.go 80, 126)
ReturnsError(res) == res.err \in {"presnap", "recreate"}

\* scheduler.go 130-131, 156-157: the call for the next name of the list
BatchCall(p) ==
    /\ ~sched.panicked
    /\ LET b == sched.batch IN
       /\ ~b.busy /\ b.i >= 1 /\ b.i <= Len(b.containers)
       /\ sched' = [sched EXCEPT !.batch.busy = TRUE,
                                 !.batch.processed = Append(@, b.containers[b.i])]
       /\ IF b.checkOnly
          THEN CheckContainer(p, b.containers[b.i], b.cleanup)
          ELSE UpdateStart(p, b.containers[b.i], b.force)
    /\ UNCHANGED budget

\* scheduler.go 132-145, 158-162: the call returned; a check is counted, an
\* update's result is appended unless the call returned an error
BatchCollect(p) ==
    /\ ~crashed
    /\ ~sched.panicked
    /\ stack[p] = <<>>
    /\ LET b == sched.batch
           r == ret[p]
       IN  /\ b.busy
           /\ sched' = [sched EXCEPT
                 !.batch = [b EXCEPT
                   !.busy = FALSE,
                   !.i = @ + 1,
                   !.failed = IF b.checkOnly /\ ~r.ok THEN @ + 1 ELSE @,
                   !.needsUpdate = IF b.checkOnly /\ r.ok /\ r.needs THEN @ + 1 ELSE @,
                   !.upToDate = IF b.checkOnly /\ r.ok /\ ~r.needs THEN @ + 1 ELSE @,
                   !.results = IF b.checkOnly \/ ReturnsError(r) THEN @ ELSE Append(@, r)]]
    /\ UNCHANGED <<engine, tagTarget, zfs, rows, nextId, now, locked, holder, stack,
                   budget, ret, faults, crashed, call>>

\* scheduler.go 165-181, main.go 199-215
Updated(rs) == Cardinality({k \in 1..Len(rs) : rs[k].ok})
Failed(rs) == Cardinality({k \in 1..Len(rs) : ~rs[k].ok /\ rs[k].err # ""})
Skipped(rs) == Cardinality({k \in 1..Len(rs) : ~rs[k].ok /\ rs[k].err = "" /\ ~rs[k].needs})

\* scheduler.go 148-149, 165-191, main.go 199-226: the counters of an update
\* batch and the exit code of the update command
BatchSummary(p) ==
    /\ ~crashed
    /\ ~sched.panicked
    /\ LET b == sched.batch IN
       /\ ~b.busy /\ ~b.done /\ b.i > Len(b.containers)
       /\ sched' = [sched EXCEPT
             !.batch = IF b.checkOnly THEN [b EXCEPT !.done = TRUE]
                       ELSE [b EXCEPT !.done = TRUE,
                                      !.updated = Updated(b.results),
                                      !.skipped = Skipped(b.results),
                                      !.failed = Failed(b.results),
                                      !.exit = IF Failed(b.results) > 0 THEN 1 ELSE 0]]
    /\ UNCHANGED <<engine, tagTarget, zfs, rows, nextId, now, locked, holder, stack,
                   budget, ret, faults, crashed, call>>

NextBatch ==
    \E p \in {"p1"} :
        \/ BatchCall(p)
        \/ BatchCollect(p)
        \/ BatchSummary(p)
        \/ UpdateCheck(p)
        \/ UpdatePreSnapshot(p)
        \/ UpdateRecreate(p)
        \/ UpdateWait(p)
        \/ UpdateAfterRollback(p)
        \/ NestedInspect(p)
        \/ RollbackSafety(p)
        \/ RollbackApply(p)
        \/ RollbackWait(p)
        \/ RollbackAfterRecovery(p)

SpecBatch == InitBatch /\ [][NextBatch]_vars

(***************************************************************************)
(* Properties.                                                             *)
(***************************************************************************)
Min(a, b) == IF a < b THEN a ELSE b

\* the frames of a goroutine's stack
Frames(p) == {stack[p][i] : i \in 1..Depth(p)}

\* C1: when UpdateContainer's WaitForContainer has failed and no engine,
\* registry or dataset call was made to fail, then once the compensating
\* rollback has come back, so that UpdateContainer is about to return, the
\* container exists, is running, and runs the image the pre-update snapshot
\* recorded.
C1_CompensationRestoresImage ==
    \A p \in Procs :
        (At(p, "update", "afterrb") /\ Top(p).sub.done /\ faults = MaxFaults)
        => LET c == engine[Top(p).name] IN
           /\ c.exists
           /\ c.running
           /\ \E r \in rows : r.id = Top(p).safety /\ c.image = r.ref.ID

\* C2: every UpdateContainer call that failed after it had saved its
\* pre-update snapshot has invoked the compensating RollbackContainer before
\* it returned.
C2_FailureAfterPreSnapshotCompensates ==
    \A p \in Procs :
        (ret[p].op = "update" /\ ret[p].done /\ ~ret[p].ok /\ ret[p].safety # 0)
        => ret[p].rb

\* the container was recreated from the row by a rollback, or is the
\* container the row was taken from
AtSnapshotState(c, r) ==
    /\ c.exists
    /\ \/ c.cfg.snapid = r.id
       \/ c.cfg = r.cfg /\ c.image = r.ref.ID

\* C3: a RollbackContainer call that failed and whose recovery rollback has
\* come back, so that it is about to return, leaves the container (a) at the
\* requested snapshot, or (b) at its safety snapshot, or (c) has issued no
\* recreate.
C3_RollbackEndsInOneOfThree ==
    \A p \in Procs : \A f \in Frames(p) :
        (f.op = "rollback" /\ f.pc = "afterrec" /\ f.sub.done)
        => \/ AtSnapshotState(engine[f.name], f.snap)
           \/ \E r \in rows : r.id = f.safety /\ AtSnapshotState(engine[f.name], r)
           \/ ~f.rec

InWindow(p) == \E f \in Frames(p) : f.op \in {"update", "rollback"} /\ f.pc = "wait"

\* C5: at most one UpdateContainer or RollbackContainer invocation is inside
\* its mutation window at any time.
C5_OneInvocationInWindow == Cardinality({p \in Procs : InWindow(p)}) <= 1

\* C6: while a goroutine is inside a nested RollbackContainer, cm.lock is
\* not held by a frame of that call's own call chain: the caller released it
\* before the call.
C6_NestedNotBlockedByOwnChain ==
    \A p \in Procs :
        Depth(p) >= 2 => ~(locked /\ holder.p = p /\ holder.d < Depth(p))

\* a rollback called by a failed update got through its CreateSnapshot and
\* its cm.lock.Lock()
C6_Witness ==
    \E p \in Procs :
        /\ Depth(p) = 2
        /\ stack[p][1].op = "update" /\ stack[p][1].pc = "afterrb"
        /\ Top(p).pc = "wait" /\ Top(p).safety # 0
        /\ locked /\ holder = [p |-> p, d |-> 2]

\* the snapshots captured for name so far: the table's AUTOINCREMENT counter
\* counts every row ever inserted, and the rows of the other containers are
\* all still there
Captured(rs, nid, name) == nid - 1 - Cardinality({r \in rs : r.name # name})

Newest(rs, name, retain) ==
    {r \in RowsOf(rs, name) :
        Cardinality({q \in RowsOf(rs, name) : q.created_at > r.created_at}) < retain}

C9_PreSnapshotKept ==
    \A p \in Procs : \A f \in Frames(p) :
        (f.op = "update" /\ f.safety # 0)
        => \E r \in rows : r.id = f.safety /\ r.name = f.name

\* C10: as long as no call was made to fail, a dataset snapshot exists iff
\* a row of the table carries its handle.
C10_HandleIffRecord ==
    faults = MaxFaults
    => /\ \A n \in Names : \A i \in 1..Len(zfs[n].snaps) :
            \E r \in rows : r.zfs = Handle(n, zfs[n].snaps[i].t)
       /\ \A r \in rows : r.zfs # NoHandle => HandleExists(zfs, r.zfs)

\* C11: in a rollback that restores the data, the dataset rollback to the
\* requested snapshot's handle keeps what the recovery needs: once the dataset
\* rollback is done, the dataset snapshot of the rollback's safety snapshot
\* still exists.
C11_SafetyHandleSurvivesDataRollback ==
    \A p \in Procs : \A f \in Frames(p) :
        (f.op = "rollback" /\ f.rec /\ f.opts.data /\ f.snap.zfs # NoHandle /\ f.safety # 0)
        => \A r \in rows : (r.id = f.safety /\ r.zfs # NoHandle) => HandleExists(zfs, r.zfs)

\* C12: an update that stopped in its recreate, after the pre-update snapshot
\* was saved, is repaired by a later rollback to that pre-update snapshot: the
\* rollback called next, on the snapshot the failed update reported, succeeds.
C12_RollbackRestoresAfterStoppedUpdate ==
    [][\A p \in Procs :
         (/\ ret[p].op = "update" /\ ret[p].done /\ ret[p].err = "recreate"
          /\ ret[p].safety # 0
          /\ ret'[p] # ret[p]
          /\ ret'[p].op = "rollback" /\ ret'[p].opts.sid = ret[p].safety)
         => ret'[p].ok]_vars

\* C13: the comparison of CheckContainer reports needs_update = (the digests
\* differ) when both images carry a digest, and (the local ids differ)
\* otherwise; equal digests give FALSE even when the local ids differ.
C13_NeedsUpdateByDigestThenId ==
    (call.fn = "Compare" /\ call.done /\ call.err = "")
    => call.needs = (IF call.cur.RepoDigest # 0 /\ call.lat.RepoDigest # 0
                     THEN call.cur.RepoDigest # call.lat.RepoDigest
                     ELSE call.cur.ID # call.lat.ID)

\* equal digests, different local ids: no update
C13_Witness ==
    /\ call.fn = "Compare" /\ call.done /\ call.err = ""
    /\ call.cur.RepoDigest # 0 /\ call.cur.RepoDigest = call.lat.RepoDigest
    /\ call.cur.ID # call.lat.ID
    /\ ~call.needs

\* C14: when the check reports that no update is needed and force is not
\* set, UpdateContainer returns success = true with needs_update = false,
\* having saved no snapshot and recreated nothing.
C14_NoUpdateIsSuccess ==
    \A p \in Procs :
        (/\ ret[p].op = "update" /\ ret[p].done
         /\ ret[p].err = "" /\ ~ret[p].needs /\ ~ret[p].opts.force)
        => (ret[p].ok /\ ret[p].safety = 0 /\ ~ret[p].rec)

\* the call a goroutine starts in a step: the name of the operation
StartedOp(p) == IF stack'[p] # <<>> THEN stack'[p][1].op ELSE ret'[p].op

\* C15: check, update and rollback of a container that is not managed, and
\* check and update of a container that is not running, fail at once: the
\* call returns a failure and nothing was pulled, saved, rolled back on the
\* dataset or recreated.
C15_GatesRejectWithoutEffect ==
    [][\A p \in Procs : \A name \in Targets :
         LET c == engine[name]
             op == StartedOp(p)
         IN  (/\ Idle(p) /\ budget'[p] < budget[p]
              /\ c.exists
              /\ \/ op \in {"check", "update", "rollback"} /\ ~c.cfg.enabled
                 \/ op \in {"check", "update"} /\ ~c.running)
             => (/\ stack'[p] = <<>>
                 /\ ~ret'[p].ok /\ ret'[p].err # ""
                 /\ UNCHANGED <<engine, tagTarget, zfs, rows, nextId>>)]_vars

\* a rollback of an unmanaged container was rejected after an earlier call was
C15_Witness ==
    \E p \in Procs :
        /\ budget[p] = 0
        /\ ret[p].op = "rollback" /\ ret[p].err = "notenabled"
        /\ \A name \in Targets : ~engine[name].cfg.enabled /\ ~engine[name].running

C17_OriginalReferenceKept ==
    \A name \in Targets :
        /\ engine[name].exists => UpdateRef(engine[name]) = UserConfig.image
        /\ \A r \in RowsOf(rows, name) : r.ref.Original = UserConfig.image

\* a snapshot saved while the container was pinned to a digest by a rollback
C17_Witness ==
    \E name \in Targets :
        /\ engine[name].exists
        /\ engine[name].cfg.image.kind = "digest"
        /\ \E r \in RowsOf(rows, name) : r.cfg.image.kind = "digest"

MinContainerTimeout == 30
MaxContainerTimeout == 86400

\* C19: the readiness timeout taken from the label zockimate.timeout is the
\* label's value at 30 s and at 24 h, and the default at 29 s, at 24 h + 1 s
\* and for a label that does not parse.
C19_TimeoutLabelRange ==
    (call.fn = "GetTimeout" /\ call.done /\ call.label.present)
    => LET p == ParseDuration(call.label)
       IN  /\ (p.ok /\ p.d \in {MinContainerTimeout, MaxContainerTimeout})
              => call.timeout = p.d
           /\ (~p.ok \/ p.d \in {MinContainerTimeout - 1, MaxContainerTimeout + 1})
              => call.timeout = call.def

\* C20: once the scheduler's goroutine has received SIGINT or SIGTERM, the
\* Stop it calls eventually returns (nobody else calling Stop meanwhile).
C20_StopReturnsAfterSignal ==
    (sched.signalled = "received")
    ~> (sched.stop["signal"] = "returned" \/ sched.stop["api"] # "none")

\* C20, the safety part: after cron.Stop() no task starts, and a task that was
\* started is never taken back: it goes on to its end.
C20_TasksRunOn ==
    [][/\ \A i \in Tasks :
            /\ (sched.cron = "stopped" /\ sched.task[i] = "none") => sched'.task[i] = "none"
            /\ sched.task[i] = "list" => sched'.task[i] \in {"list", "perform", "done"}
            /\ sched.task[i] = "perform" => sched'.task[i] \in {"perform", "done"}
            /\ sched.task[i] = "done" => sched'.task[i] = "done"]_vars

\* C21: RemoveEntries with opts.zfs set destroys the dataset snapshots of
\* exactly the rows the before / older_than / all filter selects, then
\* deletes those rows, and returns their number.
C21_RemoveWithZfsDestroysAndDeletes ==
    [][\A p \in Procs :
         (ret[p] = NoRes /\ ret'[p].op = "remove" /\ ret'[p].opts.zfs)
         => LET sel == Selected(rows, ret'[p].name, ret'[p].opts, now)
            IN  /\ ret'[p].ok
                /\ rows' = rows \ sel
                /\ zfs' = DestroyAll(zfs, HandlesOf(sel))
                /\ ret'[p].count = Cardinality(sel)]_vars

\* the engine and the table after a rename that took effect in both
Renamed(e, oldName, newName) ==
    [e EXCEPT ![oldName] = NoContainer, ![newName] = e[oldName]]
RenamedRows(rs, oldName, newName) ==
    {IF r.name = oldName THEN [r EXCEPT !.name = newName] ELSE r : r \in rs}

\* C22: a rename without db-only is all-or-nothing: on success the engine
\* container and every row of the old name use the new name; on failure the
\* container is named as before and no row was changed.
C22_RenameAllOrNothing ==
    [][\A p \in Procs :
         (ret[p] = NoRes /\ ret'[p].op = "rename" /\ ~ret'[p].opts.dbOnly)
         => IF ret'[p].ok
            THEN /\ engine' = Renamed(engine, ret'[p].name, ret'[p].newName)
                 /\ rows' = RenamedRows(rows, ret'[p].name, ret'[p].newName)
                 /\ RowsOf(rows, ret'[p].newName) = {}
            ELSE engine' = engine /\ rows' = rows]_vars

\* C22, as the code has it: the same, except that a failure of the reverting
\* engine rename leaves the container under the new name while the rows keep
\* the old one, and the result names both failures.
C22_RenameAllOrNothingUnlessRevertFails ==
    [][\A p \in Procs :
         (ret[p] = NoRes /\ ret'[p].op = "rename" /\ ~ret'[p].opts.dbOnly)
         => IF ret'[p].ok
            THEN /\ engine' = Renamed(engine, ret'[p].name, ret'[p].newName)
                 /\ rows' = RenamedRows(rows, ret'[p].name, ret'[p].newName)
                 /\ RowsOf(rows, ret'[p].newName) = {}
            ELSE /\ rows' = rows
                 /\ \/ engine' = engine
                    \/ /\ ret'[p].err = "database+revert"
                       /\ engine' = Renamed(engine, ret'[p].name, ret'[p].newName)]_vars

\* the table refused a rename after the engine had renamed, and the container
\* has its old name again
C22_Witness ==
    \E p \in Procs :
        /\ ret[p].op = "rename" /\ ~ret[p].opts.dbOnly
        /\ ~ret[p].ok /\ ret[p].renamed /\ ret[p].err = "database"
        /\ engine[ret[p].name].exists /\ ~engine[ret[p].newName].exists
        /\ RowsOf(rows, ret[p].newName) # {}

\* C23: the names of a batch are processed once each and in list order, and
\* the batch never ends with names left over: the process does not die
\* before a call was issued for every name of the list.
C23_BatchProcessesEveryName ==
    LET b == sched.batch IN
    /\ Len(b.processed) <= Len(b.containers)
    /\ b.processed = SubSeq(b.containers, 1, Len(b.processed))
    /\ (b.done => b.processed = b.containers)
    /\ (crashed => b.processed = b.containers)

\* C24: when an update batch has ended, there is one result record per name
\* and updated + skipped + failed is the number of names; a name whose
\* update was needed and did not succeed makes the command exit non-zero.
C24_BatchCountsEveryName ==
    LET b == sched.batch IN
    (b.done /\ ~b.checkOnly)
    => /\ Len(b.results) = Len(b.containers)
       /\ b.updated + b.skipped + b.failed = Len(b.containers)
       /\ ((\E k \in 1..Len(b.results) : ~b.results[k].ok /\ b.results[k].needs)
           => b.exit # 0)

\* the stages of UpdateContainer in the order of its code
UpdateOrder ==
    {<<"check", "presnap">>, <<"presnap", "lock">>, <<"lock", "wait">>,
     <<"wait", "afterrb">>, <<"wait", "cut">>}

\* C25: an update goes through inspect, check, pre-update snapshot, recreate
\* and wait in that order; it issues the recreate only after its own
\* pre-update snapshot was saved; and when saving that snapshot fails it
\* returns failure at once, without a recreate and without a rollback.
C25_RecreateOnlyAfterPreSnapshot ==
    [][\A p \in Procs :
         (stack[p] # <<>> /\ stack[p][1].op = "update" /\ stack'[p] # stack[p])
         => LET f == stack[p][1] IN
            /\ (stack'[p] # <<>> /\ stack'[p][1].pc # f.pc)
               => (Len(stack[p]) = 1 /\ <<f.pc, stack'[p][1].pc>> \in UpdateOrder)
            /\ (Len(stack[p]) = 1 /\ f.pc = "lock")
               => /\ f.safety # 0 /\ f.safety < nextId
                  /\ ~f.rec
            /\ (Len(stack[p]) = 1 /\ f.pc = "presnap" /\ stack'[p] = <<>>)
               => /\ ~ret'[p].ok /\ ret'[p].err = "presnap"
                  /\ ~ret'[p].rec /\ ~ret'[p].rb
                  /\ engine' = engine]_vars

\* one update ended on a failed pre-update snapshot while another is past its
\* recreate, with its own pre-update snapshot saved
C25_Witness ==
    /\ \E p \in Procs : ret[p].op = "update" /\ ret[p].err = "presnap" /\ ~ret[p].rec
    /\ \E p \in Procs :
         /\ stack[p] # <<>>
         /\ stack[p][1].op = "update" /\ stack[p][1].rec /\ stack[p][1].safety # 0

\* the result the top frame of p hands to its caller in this step
Returned(p) ==
    IF Depth(p) = 1 THEN ret'[p] ELSE stack'[p][Depth(p) - 1].sub

\* C26: a rollback pulls, rolls the dataset back or recreates only after the
\* safety snapshot of the same invocation was saved; when the snapshot lookup
\* or the safety snapshot fails, the call returns a failure and has changed
\* neither the container, nor the dataset, nor the rows of the table.
C26_RollbackMutatesOnlyAfterSafetySnapshot ==
    [][\A p \in Procs :
       /\ (stack[p] = <<>> /\ stack'[p] = <<>> /\ ret'[p] # ret[p] /\ ret'[p].op = "rollback")
          => /\ ~ret'[p].ok /\ ret'[p].err \in {"noctr", "notenabled", "nosnap"}
             /\ engine' = engine /\ tagTarget' = tagTarget /\ zfs' = zfs /\ rows' = rows
       /\ (stack[p] # <<>> /\ Top(p).op = "rollback" /\ stack'[p] # stack[p])
         => LET f == Top(p) IN
            /\ (\/ engine' # engine
                \/ tagTarget' # tagTarget
                \/ zfs'[f.name].data # zfs[f.name].data
                \/ Len(zfs'[f.name].snaps) < Len(zfs[f.name].snaps))
               => (f.pc = "lock" /\ f.safety # 0 /\ f.safety < nextId)
            /\ f.pc = "lock" => f.safety # 0
            /\ (f.pc \in {"inspect", "safety"} /\ Len(stack'[p]) < Len(stack[p]))
               => /\ ~Returned(p).ok /\ Returned(p).err # ""
                  /\ Returned(p).safety = 0
                  /\ engine' = engine /\ tagTarget' = tagTarget
                  /\ zfs' = zfs /\ rows' = rows]_vars

\* a rollback gave up on its safety snapshot, nothing touched
C26_Witness ==
    \E p \in Procs :
        \/ ret[p].op = "rollback" /\ ret[p].err = "safety"
        \/ /\ stack[p] # <<>>
           /\ Top(p).sub.op = "rollback" /\ Top(p).sub.err = "safety"

\* C27: WaitForContainer returns success only from a poll that found the
\* container healthy, if it declares a health check, or running, if it
\* declares none; running with a health check that is not healthy is never
\* success.
C27_SuccessOnlyWhenReady ==
    (call.fn = "WaitForContainer" /\ call.done /\ call.err = "")
    => /\ call.polls > 0
       /\ call.observed.exists
       /\ call.observed.health # "none" => call.observed.health = "healthy"
       /\ call.observed.health = "none" => call.observed.running

\* the call returned success for a container with a health check
C27_Witness ==
    /\ call.fn = "WaitForContainer" /\ call.done /\ call.err = ""
    /\ call.observed.health = "healthy"
    /\ call.polls > 1

\* C28: WaitForContainer terminates: it returns success at the first poll
\* that finds the container ready, an error at the first poll whose inspect
\* fails, the timeout error only once the timeout has elapsed; it goes on
\* after any other poll, and after it has returned it does nothing more.
C28_WaitTerminates ==
    /\ [][/\ call.done => call' = call
          /\ (call.fn = "WaitForContainer" /\ call'.polls # call.polls)
             => /\ call'.polls = call.polls + 1
                /\ call'.done = (call'.err = "inspect" \/ Ready(call'.observed))
                /\ call'.err \in {"", "inspect"}
          /\ (call.fn = "WaitForContainer" /\ call'.err = "timeout")
             => call.elapsed >= call.timeout]_vars
    /\ (call.fn = "WaitForContainer") ~> call.done

\* the call polled, found the container not ready, and returned the timeout
\* error when the timeout had elapsed
C28_Witness ==
    /\ call.fn = "WaitForContainer" /\ call.done /\ call.err = "timeout"
    /\ call.polls > 0 /\ call.elapsed >= call.timeout /\ call.timeout > 0

\* C29: a check asks for the removal of the image it pulled exactly when it
\* was called with cleanup and found that an update is needed; the check an
\* update runs never does, and the image the update recreates with is in the
\* local store when the recreate is issued.
C29_CleanupOnlyOnRequestAndNeed ==
    [][\A p \in Procs :
         /\ (stack[p] = <<>> /\ ret'[p] # ret[p] /\ ret'[p].op = "check")
            => LET r == ret'[p]
                   ref == UpdateRef(engine[r.name])
               IN  /\ (r.removed # 0) = (r.opts.cleanup /\ r.needs)
                   /\ r.removed # 0
                      => r.removed = Resolve(ref, PullTag(ref, tagTarget))
                   /\ r.removed = 0 => tagTarget' \in {tagTarget, PullTag(ref, tagTarget)}
         /\ (stack[p] # <<>> /\ stack[p][1].op = "update" /\ stack'[p] # stack[p])
            => LET f == stack[p][1] IN
               /\ (Len(stack[p]) = 1 /\ f.pc = "check")
                  => tagTarget' \in {tagTarget, PullTag(UpdateRef(engine[f.name]), tagTarget)}
               /\ (Len(stack[p]) = 1 /\ f.pc = "lock")
                  => Resolve(UpdateConfig(f.ctn).image, tagTarget) # 0]_vars

\* a check with cleanup found an update and removed the image it had pulled
C29_Witness ==
    \E p \in Procs :
        /\ ret[p].op = "check" /\ ret[p].ok /\ ret[p].opts.cleanup /\ ret[p].needs
        /\ ret[p].removed = RegistryImage
        /\ tagTarget = 0

\* the row RollbackContainer(name, id) has to apply on the table rs
Wanted(rs, name, id) ==
    {r \in rs : /\ r.name = name
                /\ IF id > 0 THEN r.id = id
                   ELSE \A q \in rs : q.name = name => q.created_at <= r.created_at}

\* C30: a rollback of name never applies a row of another container: asked
\* for an id it takes the row of that id and that name, and fails without
\* having changed anything when there is none; asked for no id it takes the
\* row of name that was created last.
C30_RollbackAppliesOwnSnapshot ==
    [][\A p \in Procs :
         LET d == Len(stack[p]) IN
         \* RollbackGate: a call from the command line, or a nested call
         /\ (d = 0 /\ stack'[p] # <<>> /\ stack'[p][1].op = "rollback")
            => LET g == stack'[p][1] IN g.snap \in Wanted(rows, g.name, g.opts.sid)
         /\ (d = 0 /\ stack'[p] = <<>> /\ ret'[p] # ret[p] /\ ret'[p].op = "rollback"
               /\ Wanted(rows, ret'[p].name, ret'[p].opts.sid) = {})
            => /\ ~ret'[p].ok /\ ret'[p].err \in {"noctr", "notenabled", "nosnap"}
               /\ engine' = engine /\ zfs' = zfs /\ rows' = rows /\ tagTarget' = tagTarget
         /\ (d > 0 /\ Top(p).op = "rollback" /\ Top(p).pc = "inspect" /\ stack'[p] # stack[p])
            => IF Len(stack'[p]) = d
               THEN stack'[p][d].snap \in Wanted(rows, Top(p).name, Top(p).opts.sid)
               ELSE engine' = engine /\ zfs' = zfs /\ rows' = rows /\ tagTarget' = tagTarget
         \* the row is the one applied
         /\ (d > 0 /\ Top(p).op = "rollback" /\ Top(p).pc # "inspect")
            => /\ Top(p).snap.name = Top(p).name
               /\ Top(p).opts.sid > 0 => Top(p).snap.id = Top(p).opts.sid
               /\ (stack'[p] # stack[p] /\ Len(stack'[p]) >= d) => stack'[p][d].snap = Top(p).snap
               /\ (engine'[Top(p).name].made # engine[Top(p).name].made
                   /\ engine'[Top(p).name].made.op = "rollback")
                  => engine'[Top(p).name].made.sid = Top(p).snap.id]_vars

\* a rollback asked for the id of another container's row and was refused,
\* while that row is in the table
C30_Witness ==
    \E p \in Procs :
        /\ ret[p].op = "rollback" /\ ret[p].err = "nosnap" /\ ret[p].opts.sid > 0
        /\ \E r \in rows : r.id = ret[p].opts.sid /\ r.name # ret[p].name

\* C31: a rollback changes only the aspects its options select: the dataset
\* is rolled back only with the data aspect and a row that has a dataset
\* handle, the image the container is created from changes only with the
\* image aspect (or as part of a selected configuration), and the settings
\* of the container are replaced by the snapshot's only with the config
\* aspect.
C31_RollbackChangesSelectedAspects ==
    [][\A p \in Procs :
         (stack[p] # <<>> /\ Len(stack[p]) = 1 /\ Top(p).op = "rollback"
            /\ Top(p).pc = "lock" /\ stack'[p] # stack[p])
         => LET f == Top(p)
                c == engine[f.name]
                d == engine'[f.name]
            IN  /\ Len(zfs'[f.name].snaps) < Len(zfs[f.name].snaps)
                   => (f.opts.data /\ f.snap.zfs # NoHandle)
                /\ (c.exists /\ d.exists /\ ~f.opts.image /\ ~f.opts.config)
                   => d.cfg.image = c.cfg.image
                /\ (c.exists /\ d.exists /\ ~f.opts.config)
                   => (d.cfg.enabled = c.cfg.enabled /\ d.cfg.dataset = c.cfg.dataset)]_vars

\* the result of the call whose frame p has just popped from depth d
Outcome(p, d) == IF d = 1 THEN ret'[p] ELSE stack'[p][d - 1].sub

\* C32: after a successful rollback with the image aspect the container's
\* configured image is the snapshot's best reference: its repo digest, else
\* its tag, else its local id; and a rollback that is not forced takes a
\* reference as exact precisely when the repo digest or the local id is
\* not empty.
C32_RollbackUsesBestReference ==
    [][\A p \in Procs :
         LET d == Len(stack[p]) IN
         /\ (d > 0 /\ Top(p).op = "rollback" /\ Top(p).pc = "wait" /\ Top(p).opts.image
               /\ Len(stack'[p]) = d - 1 /\ Outcome(p, d).ok)
            => LET ir == Top(p).snap.ref
                   img == engine'[Top(p).name].cfg.image
               IN  /\ ir.RepoDigest # 0 => img = [kind |-> "digest", img |-> ir.RepoDigest]
                   /\ (ir.RepoDigest = 0 /\ ir.Tag # 0) => img = [kind |-> "tag", img |-> 0]
                   /\ (ir.RepoDigest = 0 /\ ir.Tag = 0) => img = [kind |-> "id", img |-> ir.ID]
         /\ (d > 0 /\ Top(p).op = "rollback" /\ Top(p).pc = "lock" /\ Top(p).opts.image
               /\ ~Top(p).opts.force /\ Len(stack'[p]) >= d /\ stack'[p] # stack[p])
            => (stack'[p][d].err = "inexact"
                <=> (Top(p).snap.ref.RepoDigest = 0 /\ Top(p).snap.ref.ID = 0))]_vars

\* an image rollback succeeded on a row that has a tag but no repo digest
C32_Witness ==
    \E p \in Procs :
        /\ ret[p].op = "rollback" /\ ret[p].ok /\ ret[p].opts.image
        /\ \E r \in rows :
             /\ r.id = ret[p].sid
             /\ r.ref.RepoDigest = 0 /\ r.ref.Tag # 0
             /\ engine[ret[p].name].cfg.image = TagRef

\* the place of an engine call in the order stop, remove, create, start
CallRank(op) ==
    CASE op = "inspect" -> 0 [] op = "stop" -> 1 [] op = "remove" -> 2
      [] op = "create" -> 3 [] op = "start" -> 4
Made(log, op, ok) == \E i \in 1..Len(log) : log[i] = [op |-> op, ok |-> ok]

\* C33: RecreateContainer calls the engine in the order stop, remove,
\* create, start: the existing container is removed only after its stop
\* succeeded, the new container is created only after the old one was
\* removed, and when the stop fails the old container is left in place and
\* no create is attempted.
C33_RecreateOrdersEngineCalls ==
    [][LET log == call'.log
           name == call.name
       IN  /\ \A i, j \in 1..Len(log) : i < j => CallRank(log[i].op) < CallRank(log[j].op)
           /\ (engine[name].exists /\ ~engine'[name].exists)
              => (Len(log) >= 2 /\ log[Len(log) - 1] = [op |-> "stop", ok |-> TRUE])
           /\ Made(log, "remove", TRUE) \/ Made(log, "remove", FALSE)
              => Made(log, "stop", TRUE)
           /\ (engine'[name] # engine[name] /\ engine'[name].exists /\ call.pc = "create")
              => /\ ~engine[name].exists
                 /\ call.old.exists => Made(log, "remove", TRUE)
           /\ Made(log, "create", TRUE)
              => (~call.old.exists \/ Made(log, "remove", TRUE))
           /\ Made(log, "stop", FALSE)
              => /\ engine'[name] = call.old
                 /\ call'.pc = "done" /\ call'.err = "stop"
                 /\ ~Made(log, "create", TRUE) /\ ~Made(log, "create", FALSE)]_vars

\* the stop of an existing container failed and the function has returned
C33_Witness ==
    /\ call.fn = "RecreateContainer" /\ call.pc = "done" /\ call.err = "stop"
    /\ call.old.exists /\ engine[call.name] = call.old

\* the goroutine that took the step
Actor(p) == stack'[p] # stack[p] \/ ret'[p] # ret[p]

\* C34: the manager lock is released only by the call that holds it: no
\* Unlock is made on the lock when it is not locked (a fatal error of the
\* runtime), and no call releases the lock while a call of another
\* goroutine holds it.
C34_LockBalanced ==
    [][/\ crashed' = crashed
       /\ (locked /\ (~locked' \/ holder' # holder))
          => \A p \in Procs : Actor(p) => holder.p = p]_vars

\* the rollback frames of a goroutine: a rollback, its recovery, the
\* recovery's recovery, ...
RollbackFrames(p) == {i \in 1..Len(stack[p]) : stack[p][i].op = "rollback"}

\* C35: a rollback ends after at most one recovery attempt: the chain of
\* nested recovery rollbacks never goes deeper than the rollback and its one
\* recovery, whose failure is chained into the error returned, and so takes
\* at most two safety snapshots.
C35_RecoveryDepthBounded ==
    \A p \in Procs :
        /\ Cardinality(RollbackFrames(p)) <= 2
        /\ \A i \in 1..Len(stack[p]) : stack[p][i].pc # "cut"
        /\ Cardinality({i \in RollbackFrames(p) : stack[p][i].safety # 0}) <= 2

\* C36: the container an update's recreate replaces is the one its inspect
\* saw and its pre-update snapshot captured, also when other calls run on
\* the same container at the same time: nothing recreates the container
\* between the update's inspect and pre-update snapshot and its own
\* recreate.
C36_UpdateReplacesSnapshottedState ==
    [][\A p \in Procs :
         (stack[p] # <<>> /\ Top(p).op = "update" /\ Top(p).pc = "lock"
            /\ stack'[p] # stack[p])
         => LET f == Top(p)
                c == engine[f.name]
            IN  /\ c = f.ctn
                /\ \A r \in rows : r.id = f.safety
                                   => (r.cfg = c.cfg /\ r.ref.ID = c.image)]_vars

DryCall(p) ==
    \/ /\ budget'[p] # budget[p]
       /\ IF stack'[p] = <<>> THEN ret'[p].op = "update" /\ ret'[p].opts.dryRun
          ELSE stack'[p][1].op = "update" /\ stack'[p][1].opts.dryRun
    \/ stack[p] # <<>> /\ stack[p][1].op = "update" /\ stack[p][1].opts.dryRun

\* C38: an update with dry_run returns at once without any engine call,
\* store write or dataset operation, and leaves the manager lock free.
C38_DryRunUpdateHasNoEffect ==
    [][\A p \in Procs :
         DryCall(p)
         => /\ engine' = engine /\ tagTarget' = tagTarget
            /\ rows' = rows /\ nextId' = nextId
            /\ zfs' = zfs
            /\ ~locked' /\ holder' = NoHolder /\ crashed' = crashed
            /\ stack'[p] = <<>>
            /\ ret'[p].op = "update" /\ ret'[p].done /\ ret'[p].err = ""]_vars

\* a dry run returned for a running, managed container that has a newer
\* image waiting in the registry
C38_Witness ==
    \E p \in Procs :
        /\ ret[p].op = "update" /\ ret[p].opts.dryRun /\ ret[p].done
        /\ LET c == engine[ret[p].name]
           IN  c.exists /\ c.running /\ IsContainerEnabled(c.cfg) /\ c.image # RegistryImage

====
